---- MODULE Spec2Model ----
(***************************************************************************)
(* Flip Finder: the deal-evaluation pipeline (comp filter, ARV estimators, *)
(* coarse repair estimator, deal evaluator, scorer) and the dashboard that *)
(* drives it.  Python floats are modelled as exact rationals [n, d].       *)
(***************************************************************************)
EXTENDS Integers, Sequences, FiniteSets, TLC

VARIABLES
    mode,             \* which entry point is running
    pc,               \* position of the entry point
    settings,         \* config.settings: the process-wide mutable configuration
    now,              \* the wall clock: [day, secs]
    params,           \* FlipFinderDashboard parameters
    prop_heap,        \* Property objects by identity
    properties,       \* FlipFinderDashboard.properties (references into prop_heap)
    deal_heap,        \* deal dict objects by identity
    deals,            \* FlipFinderDashboard.deals (references into deal_heap)
    scored_deals,     \* FlipFinderDashboard.scored_deals (references into deal_heap)
    view,             \* PropertyDetailView state
    steps,            \* number of user operations done so far
    arg,              \* input of the function under test
    ret,              \* its result
    log               \* what the last operation observed (audit of the run)

vars == <<mode, pc, settings, now, params, prop_heap, properties, deal_heap,
          deals, scored_deals, view, steps, arg, ret, log>>

(***************************************************************************)
(* Exact rational arithmetic standing for Python float arithmetic.         *)
(***************************************************************************)
\* An operator's arguments are bound to their values by the set constructor
\* { e : x \in {a} }, so that each argument is evaluated once.  Bind(v, F) is
\* F applied to the value of v: the assignment of v to a local variable.
Bind(v, F(_)) == CHOOSE r \in { F(x) : x \in {v} } : TRUE

RECURSIVE GCD(_, _)
GCD(a, b) == IF b = 0 THEN a ELSE GCD(b, a % b)

Abs(i) == IF i < 0 THEN -i ELSE i

Gcd(a, b) ==
    CHOOSE g \in { IF h = 0 THEN 1 ELSE h : h \in {GCD(Abs(a), Abs(b))} } : TRUE

Q(n, d) ==
    CHOOSE r \in
        { IF y = 1 THEN [n |-> x, d |-> 1]
          ELSE CHOOSE q \in { [n |-> (IF y < 0 THEN -1 ELSE 1) * (x \div g),
                               d |-> (IF y < 0 THEN -1 ELSE 1) * (y \div g)] :
                                g \in {Gcd(x, y)} } : TRUE :
            x \in {n}, y \in {d} } : TRUE

R(i) == [n |-> i, d |-> 1]

RAdd(a, b) ==
    CHOOSE r \in
        { IF x.d = 1 /\ y.d = 1 THEN [n |-> x.n + y.n, d |-> 1]
          ELSE CHOOSE q \in { Q(x.n * (y.d \div g) + y.n * (x.d \div g),
                                (x.d \div g) * y.d) : g \in {Gcd(x.d, y.d)} } : TRUE :
            x \in {a}, y \in {b} } : TRUE

RNeg(a) == CHOOSE r \in { [n |-> -x.n, d |-> x.d] : x \in {a} } : TRUE

RSub(a, b) == RAdd(a, RNeg(b))

RMul(a, b) ==
    CHOOSE r \in
        { IF x.d = 1 /\ y.d = 1 THEN [n |-> x.n * y.n, d |-> 1]
          ELSE CHOOSE q \in { Q((x.n \div g1) * (y.n \div g2),
                                (x.d \div g2) * (y.d \div g1)) :
                                g1 \in {Gcd(x.n, y.d)}, g2 \in {Gcd(y.n, x.d)} } : TRUE :
            x \in {a}, y \in {b} } : TRUE

\* a / b, defined for b # 0 (Python raises ZeroDivisionError otherwise)
RDiv(a, b) ==
    CHOOSE r \in { RMul(x, Q(y.d, y.n)) : x \in {a}, y \in {b} } : TRUE

RLe(a, b) ==
    \E x \in {a}, y \in {b} :
        IF x.d = y.d THEN x.n <= y.n
        ELSE \E g \in {Gcd(x.d, y.d)} : x.n * (y.d \div g) <= y.n * (x.d \div g)

RLt(a, b) == ~RLe(b, a)

REq(a, b) == a = b

RAbs(a) == Bind(a, LAMBDA x : [n |-> Abs(x.n), d |-> x.d])

RMin(a, b) ==
    CHOOSE r \in { IF RLe(x, y) THEN x ELSE y : x \in {a}, y \in {b} } : TRUE

RMax(a, b) ==
    CHOOSE r \in { IF RLe(y, x) THEN x ELSE y : x \in {a}, y \in {b} } : TRUE

\* int(x): truncation toward zero
RInt(a) ==
    Bind(a, LAMBDA x : IF x.n >= 0 THEN x.n \div x.d ELSE -((-x.n) \div x.d))

RECURSIVE RSum(_)
RSum(s) ==
    Bind(s, LAMBDA t :
        IF Len(t) = 0 THEN R(0)
        ELSE IF Len(t) = 1 THEN t[1]
        ELSE RAdd(RSum(SubSeq(t, 1, Len(t) \div 2)),
                  RSum(SubSeq(t, Len(t) \div 2 + 1, Len(t)))))

\* np.mean of a non-empty list
RMean(s) == Bind(s, LAMBDA t : RDiv(RSum(t), R(Len(t))))

RECURSIVE RMinOf(_)
RMinOf(s) ==
    Bind(s, LAMBDA t : IF Len(t) = 1 THEN t[1] ELSE RMin(t[1], RMinOf(Tail(t))))

RECURSIVE RMaxOf(_)
RMaxOf(s) ==
    Bind(s, LAMBDA t : IF Len(t) = 1 THEN t[1] ELSE RMax(t[1], RMaxOf(Tail(t))))

Range(s) == Bind(s, LAMBDA t : {t[i] : i \in DOMAIN t})

(***************************************************************************)
(* config/settings.py                                                      *)
(***************************************************************************)
REPAIR_COSTS ==
    [base_sqft_cost |-> R(20), kitchen |-> R(15000), bathroom |-> R(7500),
     roof |-> R(10000), hvac |-> R(8000), foundation |-> R(15000),
     electrical |-> R(8000), plumbing |-> R(7000)]

CLOSING_COSTS ==
    [purchase_percentage |-> Q(3, 100),
     seller_closing_percentage |-> Q(2, 100),
     agent_commission |-> Q(6, 100)]

HOLDING_COSTS ==
    [mortgage_rate |-> Q(7, 100), property_tax_rate |-> Q(15, 1000),
     insurance_rate |-> Q(5, 1000), monthly_utilities |-> R(200)]

AVERAGE_FLIP_MONTHS == 4

SCORING ==
    [profit_weight |-> 40, roi_weight |-> 30, repair_cost_weight |-> 15,
     dom_weight |-> 10, opportunity_keywords_weight |-> 5,
     meets_70_rule_weight |-> 5]

DEFAULT_MIN_ROI == 20

\* the opportunity vocabulary (RedfinConnector carries the same list as
\* opportunity_terms)
OPPORTUNITY_KEYWORDS ==
    <<"as-is", "fixer", "needs work", "handyman", "tlc", "potential", "opportunity",
      "estate sale", "foreclosure", "bank owned", "reo", "short sale", "distressed",
      "investor", "renovation", "remodel", "restore", "flip", "under market",
      "bargain", "motivated", "must sell", "bring offer", "priced to sell",
      "reduced">>

\* the settings module as imported: the mutable part of the configuration
InitialSettings ==
    [REPAIR_COSTS |-> REPAIR_COSTS,
     HOLDING_COSTS |-> HOLDING_COSTS,
     AVERAGE_FLIP_MONTHS |-> R(AVERAGE_FLIP_MONTHS)]

(***************************************************************************)
(* models/property.py                                                      *)
(***************************************************************************)
CurrentYear == 2026

\* Property.age: None when year_built is not positive
AgeKnown(p) == p.year_built > 0

Age(p) == CurrentYear - p.year_built

\* f"{address}, {city}, {state} {zip_code}"
get_full_address(p) == <<p.address, p.city, p.state, p.zip_code>>

\* Property.to_dict: the snapshot embedded in a deal
to_dict(p) ==
    [mls_id |-> p.mls_id, address |-> p.address,
     list_price |-> p.list_price, bedrooms |-> p.bedrooms,
     bathrooms |-> p.bathrooms, square_feet |-> p.square_feet,
     year_built |-> p.year_built, days_on_market |-> p.days_on_market,
     opportunity_keywords |-> p.opportunity_keywords,
     estimated_repair_cost |-> p.estimated_repair_cost,
     estimated_arv |-> p.estimated_arv,
     estimated_profit |-> p.estimated_profit,
     estimated_roi |-> p.estimated_roi]

(***************************************************************************)
(* analysis/deal_analyzer.py                                               *)
(***************************************************************************)
high_repair_keywords == <<"fixer", "needs work", "tlc", "handyman", "distressed">>

moderate_repair_keywords == <<"dated", "original", "renovate", "update">>

\* age tiers with the boundaries taken inclusively
age_factor_inclusive(p) ==
    IF ~AgeKnown(p) THEN R(1)
    ELSE IF Age(p) >= 50 THEN Q(15, 10)
    ELSE IF Age(p) >= 30 THEN Q(13, 10)
    ELSE IF Age(p) >= 15 THEN Q(11, 10)
    ELSE R(1)

\* the age tiers of estimate_repairs
age_factor(p) ==
    IF ~AgeKnown(p) THEN R(1)
    ELSE IF Age(p) > 50 THEN Q(15, 10)
    ELSE IF Age(p) > 30 THEN Q(13, 10)
    ELSE IF Age(p) > 15 THEN Q(11, 10)
    ELSE R(1)

\* the two keyword loops of estimate_repairs: high tier first, then moderate
condition_factor(p) ==
    LET kws == Range(p.opportunity_keywords)
        afterHigh == IF \E i \in DOMAIN high_repair_keywords :
                            high_repair_keywords[i] \in kws
                     THEN Q(15, 10) ELSE R(1)
    IN  IF REq(afterHigh, R(1))
        THEN IF \E i \in DOMAIN moderate_repair_keywords :
                    moderate_repair_keywords[i] \in kws
             THEN Q(125, 100) ELSE R(1)
        ELSE afterHigh

\* a kitchen cost that grows with the size of the property
repair_extras_proportional(p, st) ==
    IF AgeKnown(p) /\ Age(p) > 20
    THEN RAdd(RMul(st.REPAIR_COSTS.kitchen, RDiv(p.square_feet, R(1500))),
              RMul(st.REPAIR_COSTS.bathroom, RMin(p.bathrooms, R(2))))
    ELSE R(0)

\* kitchen and bathroom additions of estimate_repairs (older properties only)
repair_extras(p, st) ==
    IF AgeKnown(p) /\ Age(p) # 0 /\ Age(p) > 20
    THEN LET k == IF RInt(RDiv(p.square_feet, R(1500))) < 1
                  THEN RInt(RDiv(p.square_feet, R(1500))) ELSE 1
         IN  RAdd(RMul(st.REPAIR_COSTS.kitchen, R(k)),
                  RMul(st.REPAIR_COSTS.bathroom, RMin(p.bathrooms, R(2))))
    ELSE R(0)

\* the estimate without the contingency
estimate_repairs_no_contingency(p, st) ==
    RAdd(RMul(RMul(RMul(p.square_feet, st.REPAIR_COSTS.base_sqft_cost),
                   age_factor(p)), condition_factor(p)),
         repair_extras(p, st))

estimate_repairs(p, st) ==
    LET base_sqft_cost == st.REPAIR_COSTS.base_sqft_cost
        repair_estimate ==
            RMul(RMul(RMul(p.square_feet, base_sqft_cost), age_factor(p)),
                 condition_factor(p))
    IN  RMul(RAdd(repair_estimate, repair_extras(p, st)), Q(11, 10))

calculate_closing_costs(purchase_price, sale_price) ==
    LET purchase_closing == RMul(purchase_price, CLOSING_COSTS.purchase_percentage)
        agent_commission == RMul(sale_price, CLOSING_COSTS.agent_commission)
        seller_closing   == RMul(sale_price, CLOSING_COSTS.seller_closing_percentage)
    IN  [purchase_closing |-> purchase_closing,
         agent_commission |-> agent_commission,
         seller_closing   |-> seller_closing,
         total |-> RAdd(RAdd(purchase_closing, agent_commission), seller_closing)]

\* the monthly holding cost without the utilities
calculate_holding_costs_no_utilities(purchase_price, months, st) ==
    RMul(RDiv(RMul(purchase_price,
                   RAdd(RAdd(st.HOLDING_COSTS.mortgage_rate,
                             st.HOLDING_COSTS.property_tax_rate),
                        st.HOLDING_COSTS.insurance_rate)), R(12)), months)

calculate_holding_costs(purchase_price, months, st) ==
    LET mortgage  == RDiv(RMul(purchase_price, st.HOLDING_COSTS.mortgage_rate), R(12))
        taxes     == RDiv(RMul(purchase_price, st.HOLDING_COSTS.property_tax_rate), R(12))
        insurance == RDiv(RMul(purchase_price, st.HOLDING_COSTS.insurance_rate), R(12))
        utilities == st.HOLDING_COSTS.monthly_utilities
        total_monthly == RAdd(RAdd(RAdd(mortgage, taxes), insurance), utilities)
    IN  RMul(total_monthly, months)

\* roi = (potential_profit / total_project_cost) * 100
roi_of(potential_profit, total_project_cost) ==
    RMul(RDiv(potential_profit, total_project_cost), R(100))

\* total_project_cost = list_price + repair_costs + closing_costs + holding_costs
total_cost_of(list_price, repair_costs, closing_total, holding_costs) ==
    RAdd(RAdd(RAdd(list_price, repair_costs), closing_total), holding_costs)

\* max_purchase_price = 0.7 * arv - repair_costs
max_purchase_of(arv, repair_costs) == RSub(RMul(Q(7, 10), arv), repair_costs)

\* the rule with a strict comparison
meets_70_strict(list_price, max_purchase_price) == RLt(list_price, max_purchase_price)

\* meets_70_percent_rule = list_price <= max_purchase_price
meets_70_of(list_price, max_purchase_price) == RLe(list_price, max_purchase_price)

\* analyze_deal: writes the estimates back onto the property and returns the
\* deal dict; raised = the division by a zero total project cost
analyze_deal(p, arv, repair_costs, min_roi, st) ==
    Bind(calculate_closing_costs(p.list_price, arv), LAMBDA closing_costs :
    Bind(calculate_holding_costs(p.list_price, st.AVERAGE_FLIP_MONTHS, st),
         LAMBDA holding_costs :
    Bind(total_cost_of(p.list_price, repair_costs, closing_costs.total,
                       holding_costs), LAMBDA total_project_cost :
    Bind(RSub(arv, total_project_cost), LAMBDA potential_profit :
    Bind([p EXCEPT !.estimated_repair_cost = repair_costs,
                   !.estimated_arv = arv,
                   !.estimated_profit = potential_profit], LAMBDA p1 :
        IF total_project_cost.n = 0
        THEN [raised |-> TRUE, prop |-> p1]
        ELSE
    Bind(roi_of(potential_profit, total_project_cost), LAMBDA roi :
    Bind([p1 EXCEPT !.estimated_roi = roi], LAMBDA p2 :
    Bind(max_purchase_of(arv, repair_costs), LAMBDA max_purchase_price :
        [raised |-> FALSE,
         prop |-> p2,
         deal |-> [property_id |-> p.mls_id,
                   address |-> get_full_address(p),
                   list_price |-> p.list_price,
                   arv |-> arv,
                   repair_costs |-> repair_costs,
                   closing_costs |-> closing_costs.total,
                   holding_costs |-> holding_costs,
                   total_project_cost |-> total_project_cost,
                   potential_profit |-> potential_profit,
                   roi |-> roi,
                   meets_criteria |-> RLe(min_roi, roi),
                   meets_70_percent_rule |->
                       meets_70_of(p.list_price, max_purchase_price),
                   max_purchase_price |-> max_purchase_price,
                   property_data |-> to_dict(p2),
                   scored |-> FALSE,
                   score |-> R(0)]]))))))))

\* price per square foot of the comps that have a positive square footage
comp_psf_of(comps) ==
    Bind(SelectSeq(comps, LAMBDA c : c.square_feet.n > 0), LAMBDA ok :
        [i \in 1..Len(ok) |-> RDiv(ok[i].price, ok[i].square_feet)] \o <<>>)

\* population variance: np.std squared
RVar(s) ==
    Bind(RMean(s), LAMBDA m :
        RMean([i \in 1..Len(s) |-> RMul(RSub(s[i], m), RSub(s[i], m))] \o <<>>))

\* the filter with a strict comparison
within_2_std_strict(psf, mean_psf, var_psf) ==
    RLt(RMul(RSub(psf, mean_psf), RSub(psf, mean_psf)), RMul(R(4), var_psf))

\* abs(psf - mean) <= 2 * std, decided on the squares
within_2_std(psf, mean_psf, var_psf) ==
    RLe(RMul(RSub(psf, mean_psf), RSub(psf, mean_psf)), RMul(R(4), var_psf))

\* the 2-sigma filter with its fall-back to the unfiltered mean
outlier_filtered_mean(comp_psf) ==
    Bind(RMean(comp_psf), LAMBDA mean_psf :
    Bind(RVar(comp_psf), LAMBDA var_psf :
    Bind(SelectSeq(comp_psf, LAMBDA x : within_2_std(x, mean_psf, var_psf)),
         LAMBDA filtered_psf :
        IF filtered_psf # <<>> THEN RMean(filtered_psf) ELSE mean_psf)))

\* deal_analyzer.calculate_arv: no flag, no sample-count threshold
calculate_arv(p) ==
    IF p.comps = <<>> THEN RMul(p.list_price, Q(15, 10))
    ELSE Bind(comp_psf_of(p.comps), LAMBDA comp_psf :
            IF comp_psf = <<>> THEN RMul(p.list_price, Q(15, 10))
            ELSE RMul(p.square_feet, outlier_filtered_mean(comp_psf)))

(***************************************************************************)
(* analysis/repair_estimator.py                                            *)
(***************************************************************************)
COST_LEVELS ==
    [cosmetic |-> R(15), moderate |-> R(30), extensive |-> R(60), complete |-> R(100)]

ITEM_COSTS ==
    [roof |-> [repair |-> R(2500), replace |-> R(10000)],
     hvac |-> [repair |-> R(1500), replace |-> R(8000)],
     kitchen |-> [cosmetic |-> R(5000), moderate |-> R(15000), high_end |-> R(30000)],
     bathroom |-> [cosmetic |-> R(2500), moderate |-> R(7500), high_end |-> R(15000)],
     windows |-> [per_window |-> R(500)],
     foundation |-> [minor |-> R(5000), major |-> R(20000)],
     electrical |-> [update |-> R(5000), rewire |-> R(15000)],
     plumbing |-> [update |-> R(5000), replace |-> R(15000)]]

\* k in s, for strings: k is a substring of s
in_text(k, s) ==
    \E i \in 1..(Len(s) - Len(k) + 1) : SubSeq(s, i, i + Len(k) - 1) = k

UpperCase == "ABCDEFGHIJKLMNOPQRSTUVWXYZ"

LowerCase == "abcdefghijklmnopqrstuvwxyz"

lower_char(c) ==
    IF \E i \in 1..Len(UpperCase) : SubSeq(UpperCase, i, i) = c
    THEN Bind(CHOOSE i \in 1..Len(UpperCase) : SubSeq(UpperCase, i, i) = c,
              LAMBDA i : SubSeq(LowerCase, i, i))
    ELSE c

\* str.lower()
RECURSIVE lower(_)
lower(s) ==
    Bind(s, LAMBDA t :
        IF Len(t) = 0 THEN ""
        ELSE IF Len(t) = 1 THEN lower_char(t)
        ELSE lower(SubSeq(t, 1, Len(t) \div 2))
                 \o lower(SubSeq(t, Len(t) \div 2 + 1, Len(t))))

\* any(k in description for k in ks)
any_in(ks, description) == \E i \in DOMAIN ks : in_text(ks[i], description)

extensive_indicators ==
    <<"fixer", "needs work", "tlc", "handyman special", "distressed",
      "as-is", "potential", "opportunity", "needs renovation">>

moderate_indicators == <<"dated", "original", "some updating", "could use", "older">>

\* the age baseline of estimate_renovation_level
base_level(p) ==
    IF ~AgeKnown(p) THEN "moderate"
    ELSE IF Age(p) > 50 THEN "extensive"
    ELSE IF Age(p) > 30 THEN "moderate"
    ELSE "cosmetic"

\* the number of issue groups the description mentions
serious_issues(description) ==
    Cardinality({g \in { <<"roof", "leak">>, <<"hvac", "heat", "cooling">>,
                         <<"foundation", "structural">>, <<"electrical", "wiring">>,
                         <<"plumbing", "pipes">> } : any_in(g, description)})

\* sum(1 for k in indicators if any(k in kw for kw in keywords) or k in description)
indicator_count(indicators, keywords, description) ==
    Cardinality({i \in DOMAIN indicators :
                    \/ \E j \in DOMAIN keywords : in_text(indicators[i], keywords[j])
                    \/ in_text(indicators[i], description)})

\* a table whose first row gives the level complete
decide_level_complete(base, extensive_count, moderate_count, serious) ==
    IF extensive_count >= 2 \/ serious >= 2 THEN "complete"
    ELSE IF extensive_count >= 1 \/ moderate_count >= 2 \/ serious >= 1 THEN "moderate"
    ELSE IF moderate_count >= 1
         THEN IF base = "cosmetic" THEN "moderate" ELSE base
    ELSE base

\* a table whose first row needs three serious issues
decide_level_lenient(base, extensive_count, moderate_count, serious) ==
    IF extensive_count >= 2 \/ serious >= 3 THEN "extensive"
    ELSE IF extensive_count >= 1 \/ moderate_count >= 2 \/ serious >= 1 THEN "moderate"
    ELSE IF moderate_count >= 1
         THEN IF base = "cosmetic" THEN "moderate" ELSE base
    ELSE base

\* the final if/elif chain of estimate_renovation_level
decide_level(base, extensive_count, moderate_count, serious) ==
    IF extensive_count >= 2 \/ serious >= 2 THEN "extensive"
    ELSE IF extensive_count >= 1 \/ moderate_count >= 2 \/ serious >= 1 THEN "moderate"
    ELSE IF moderate_count >= 1
         THEN IF base = "cosmetic" THEN "moderate" ELSE base
    ELSE base

estimate_renovation_level(p) ==
    Bind(lower(p.description), LAMBDA description :
        decide_level(base_level(p),
                     indicator_count(extensive_indicators, p.opportunity_keywords,
                                     description),
                     indicator_count(moderate_indicators, p.opportunity_keywords,
                                     description),
                     serious_issues(description)))

\* the roof line item, 0 when none is added
roof_item(description) ==
    IF any_in(<<"roof", "leak", "ceiling">>, description)
    THEN IF in_text("new roof", description) \/ in_text("roof replaced", description)
         THEN R(0)
         ELSE IF in_text("roof leak", description) \/ in_text("roof damage", description)
              THEN ITEM_COSTS.roof.replace
              ELSE ITEM_COSTS.roof.repair
    ELSE R(0)

\* the HVAC line item, 0 when none is added
hvac_item(description) ==
    IF any_in(<<"hvac", "heat", "cooling", "furnace", "air conditioning">>, description)
    THEN IF in_text("new hvac", description) \/ in_text("new furnace", description)
         THEN R(0)
         ELSE IF in_text("hvac issue", description)
                 \/ in_text("heating problem", description)
              THEN ITEM_COSTS.hvac.replace
              ELSE ITEM_COSTS.hvac.repair
    ELSE R(0)

\* repairs['line_items'] as the sequence of the entries added, in order
line_items(p, description, level, item_level) ==
    (IF roof_item(description) # R(0)
     THEN << [name |-> "roof", cost |-> roof_item(description)] >> ELSE <<>>)
    \o (IF hvac_item(description) # R(0)
        THEN << [name |-> "hvac", cost |-> hvac_item(description)] >> ELSE <<>>)
    \o (IF level \in {"moderate", "extensive", "complete"}
        THEN << [name |-> "kitchen", cost |-> ITEM_COSTS.kitchen[item_level]],
                [name |-> "bathrooms",
                 cost |-> RMul(ITEM_COSTS.bathroom[item_level],
                               RMin(p.bathrooms, R(3)))] >>
        ELSE <<>>)
    \o (IF AgeKnown(p) /\ Age(p) > 30
        THEN << [name |-> "electrical", cost |-> ITEM_COSTS.electrical.update],
                [name |-> "plumbing", cost |-> ITEM_COSTS.plumbing.update] >>
        ELSE <<>>)

\* detailed_repair_estimate: the returned dict, or raised (the KeyError of a
\* kitchen or bathroom cost tier that ITEM_COSTS does not have)
detailed_repair_estimate(p) ==
    Bind(estimate_renovation_level(p), LAMBDA renovation_level :
    Bind(lower(p.description), LAMBDA description :
    Bind(IF renovation_level = "complete" THEN "high_end" ELSE renovation_level,
         LAMBDA item_level :
        IF /\ renovation_level \in {"moderate", "extensive", "complete"}
           /\ item_level \notin DOMAIN ITEM_COSTS.kitchen
        THEN [raised |-> TRUE, error |-> <<"KeyError", item_level>>]
        ELSE
    Bind(line_items(p, description, renovation_level, item_level), LAMBDA items :
    Bind(RMul(p.square_feet, COST_LEVELS[renovation_level]), LAMBDA base_cost :
    Bind(RAdd(base_cost, RSum([i \in 1..Len(items) |-> items[i].cost] \o <<>>)),
         LAMBDA subtotal :
        [raised |-> FALSE,
         overall_level |-> renovation_level,
         base_sqft_cost |-> COST_LEVELS[renovation_level],
         base_estimate |-> base_cost,
         line_items |-> items,
         contingency |-> RMul(subtotal, Q(10, 100)),
         total |-> RAdd(subtotal, RMul(subtotal, Q(10, 100)))]))))))

(***************************************************************************)
(* analysis/property_scorer.py                                             *)
(***************************************************************************)
\* weight * (value - min) / range, added only when range > 0
norm_score(weight, value, lo, range) ==
    IF range.n > 0 THEN RMul(R(weight), RDiv(RSub(value, lo), range)) ELSE R(0)

\* weight * (1 - (value - min) / range), added only when range > 0
inverted_norm_score(weight, value, lo, range) ==
    IF range.n > 0
    THEN RMul(R(weight), RSub(R(1), RDiv(RSub(value, lo), range)))
    ELSE R(0)

\* one point per keyword, without the cap
keyword_bonus_uncapped(d) == Len(d.property_data.opportunity_keywords)

\* min(opportunity_keywords_weight, len(opportunity_keywords)), if any keyword
keyword_bonus(d) ==
    LET kws == d.property_data.opportunity_keywords
    IN  IF kws # <<>>
        THEN IF SCORING.opportunity_keywords_weight < Len(kws)
             THEN SCORING.opportunity_keywords_weight ELSE Len(kws)
        ELSE 0

rule_bonus(d) == IF d.meets_70_percent_rule THEN SCORING.meets_70_rule_weight ELSE 0

\* the minima and ranges score_deals collects before its loop
score_ranges(ds) ==
    Bind([k \in 1..Len(ds) |-> ds[k].potential_profit], LAMBDA profit_values :
    Bind([k \in 1..Len(ds) |-> ds[k].roi], LAMBDA roi_values :
    Bind([k \in 1..Len(ds) |-> ds[k].repair_costs], LAMBDA repair_values :
    Bind([k \in 1..Len(ds) |-> R(ds[k].property_data.days_on_market)],
         LAMBDA dom_values :
        [min_profit |-> RMinOf(profit_values),
         min_roi    |-> RMinOf(roi_values),
         min_repair |-> RMinOf(repair_values),
         min_dom    |-> RMinOf(dom_values),
         profit_range |-> RSub(RMaxOf(profit_values), RMinOf(profit_values)),
         roi_range    |-> RSub(RMaxOf(roi_values), RMinOf(roi_values)),
         repair_range |-> RSub(RMaxOf(repair_values), RMinOf(repair_values)),
         dom_range    |-> RSub(RMaxOf(dom_values), RMinOf(dom_values))]))))

\* a pass that starts from the score the deal already carries
deal_score_accumulating(d, rg) ==
    RAdd(d.score,
    RAdd(RAdd(RAdd(RAdd(
        norm_score(SCORING.profit_weight, d.potential_profit,
                   rg.min_profit, rg.profit_range),
        norm_score(SCORING.roi_weight, d.roi, rg.min_roi, rg.roi_range)),
        inverted_norm_score(SCORING.repair_cost_weight, d.repair_costs,
                            rg.min_repair, rg.repair_range)),
        norm_score(SCORING.dom_weight, R(d.property_data.days_on_market),
                   rg.min_dom, rg.dom_range)),
        R(keyword_bonus(d) + rule_bonus(d))))

\* the score one pass of the loop of score_deals assigns to deal d
deal_score(d, rg) ==
    RAdd(RAdd(RAdd(RAdd(
        norm_score(SCORING.profit_weight, d.potential_profit,
                   rg.min_profit, rg.profit_range),
        norm_score(SCORING.roi_weight, d.roi, rg.min_roi, rg.roi_range)),
        inverted_norm_score(SCORING.repair_cost_weight, d.repair_costs,
                            rg.min_repair, rg.repair_range)),
        norm_score(SCORING.dom_weight, R(d.property_data.days_on_market),
                   rg.min_dom, rg.dom_range)),
        R(keyword_bonus(d) + rule_bonus(d)))

\* an insertion that places x before the elements of equal score
RECURSIVE insert_desc_before_ties(_, _)
insert_desc_before_ties(sorted, x) ==
    CHOOSE r \in { IF s = <<>> THEN <<e>>
                   ELSE IF RLt(e.score, Head(s).score)
                        THEN <<Head(s)>> \o insert_desc_before_ties(Tail(s), e)
                        ELSE <<e>> \o s : s \in {sorted}, e \in {x} } : TRUE

\* where the descending sort places x among already sorted elements: after
\* every element whose score is not smaller (list.sort is stable)
RECURSIVE insert_desc(_, _)
insert_desc(sorted, x) ==
    CHOOSE r \in { IF s = <<>> THEN <<e>>
                   ELSE IF RLe(e.score, Head(s).score)
                        THEN <<Head(s)>> \o insert_desc(Tail(s), e)
                        ELSE <<e>> \o s : s \in {sorted}, e \in {x} } : TRUE

\* the list left in the order of the loop
sort_desc_skipped(s) == s

\* scored_deals.sort(key=lambda x: x['score'], reverse=True)
RECURSIVE sort_desc(_)
sort_desc(s) ==
    Bind(s, LAMBDA t :
        IF t = <<>> THEN <<>>
        ELSE insert_desc(sort_desc(SubSeq(t, 1, Len(t) - 1)), t[Len(t)]))

\* property_scorer.score_deals on a list of deal dicts: the scored dicts, in
\* input order (the dicts are updated in place)
with_scores(ds) ==
    Bind(ds, LAMBDA t :
        IF t = <<>> THEN <<>>
        ELSE Bind(score_ranges(t), LAMBDA rg :
                [i \in 1..Len(t) |->
                    [t[i] EXCEPT !.scored = TRUE, !.score = deal_score(t[i], rg)]]
                \o <<>>))

\* property_scorer.score_deals: the returned list
score_deals(ds) ==
    Bind(ds, LAMBDA t : IF t = <<>> THEN <<>> ELSE sort_desc(with_scores(t)))

(***************************************************************************)
(* app.py / app2.py: FlipFinderDashboard                                   *)
(***************************************************************************)
\* datetime.now() - timedelta(days = n)
minus_days(dt, n) == [day |-> dt.day - n, secs |-> dt.secs]

\* strftime('%Y-%m-%d'): the day, without the time of day
strftime_date(dt) == dt.day

\* (now - timedelta(days = max_comp_age_months * 30)).strftime('%Y-%m-%d')
cutoff_date(clock, max_comp_age_months) ==
    strftime_date(minus_days(clock, max_comp_age_months * 30))

\* the test with the distance bound exclusive
is_comp_used_exclusive(p, comp, prm, clock) ==
    /\ RLe(RMul(p.square_feet, prm.min_comp_sqft_pct), comp.square_feet)
    /\ RLe(comp.square_feet, RMul(p.square_feet, prm.max_comp_sqft_pct))
    /\ RLt(comp.distance, prm.use_comps_within_miles)
    /\ comp.sale_date >= cutoff_date(clock, prm.max_comp_age_months)

\* the four-way test shared by filter_comps and is_comp_used
is_comp_used(p, comp, prm, clock) ==
    LET min_sqft == RMul(p.square_feet, prm.min_comp_sqft_pct)
        max_sqft == RMul(p.square_feet, prm.max_comp_sqft_pct)
        max_distance == prm.use_comps_within_miles
    IN  /\ RLe(min_sqft, comp.square_feet)
        /\ RLe(comp.square_feet, max_sqft)
        /\ RLe(comp.distance, max_distance)
        /\ comp.sale_date >= cutoff_date(clock, prm.max_comp_age_months)

\* FlipFinderDashboard.filter_comps
filter_comps(p, prm, clock) ==
    IF p.comps = <<>> THEN <<>>
    ELSE SelectSeq(p.comps, LAMBDA comp : is_comp_used(p, comp, prm, clock))

\* the average price per square foot used by the dashboards' estimators
dashboard_avg_psf(comp_psf, exclude_outliers) ==
    IF exclude_outliers /\ Len(comp_psf) > 5
    THEN outlier_filtered_mean(comp_psf)
    ELSE RMean(comp_psf)

\* an estimator whose fallback is the list price itself
dashboard_calculate_arv_flat(p, prm) ==
    Bind(comp_psf_of(p.comps), LAMBDA comp_psf :
        IF comp_psf = <<>> THEN p.list_price
        ELSE RMul(p.square_feet,
                  dashboard_avg_psf(comp_psf, prm.exclude_outliers)))

\* FlipFinderDashboard.calculate_arv
dashboard_calculate_arv(p, prm) ==
    IF p.comps = <<>> THEN RMul(p.list_price, Q(15, 10))
    ELSE Bind(comp_psf_of(p.comps), LAMBDA comp_psf :
            IF comp_psf = <<>> THEN RMul(p.list_price, Q(15, 10))
            ELSE RMul(p.square_feet,
                      dashboard_avg_psf(comp_psf, prm.exclude_outliers)))

\* the assignments to settings at the head of analyze_deals
apply_params_to_settings(st, prm) ==
    [st EXCEPT !.REPAIR_COSTS.base_sqft_cost = prm.repair_cost_per_sqft,
               !.REPAIR_COSTS.kitchen = prm.kitchen_reno_cost,
               !.REPAIR_COSTS.bathroom = prm.bathroom_reno_cost,
               !.AVERAGE_FLIP_MONTHS = prm.flip_months,
               !.HOLDING_COSTS.mortgage_rate = RDiv(prm.mortgage_rate, R(100))]

\* one iteration of the loop of analyze_deals: the property as the iteration
\* leaves it and the deal it appends, if any
analyze_one(p, prm, st, clock) ==
    Bind(filter_comps(p, prm, clock), LAMBDA filtered_comps :
    Bind([p EXCEPT !.comps = filtered_comps], LAMBDA p1 :
        IF Len(filtered_comps) < 3
        THEN [skipped |-> TRUE, prop |-> p1, eligible |-> Len(filtered_comps)]
        ELSE
    Bind(estimate_repairs(p1, st), LAMBDA repair_costs :
    Bind(dashboard_calculate_arv(p1, prm), LAMBDA arv :
    Bind(analyze_deal(p1, arv, repair_costs, prm.min_roi, st), LAMBDA r :
        [skipped |-> FALSE, prop |-> r.prop, deal |-> r.deal,
         eligible |-> Len(filtered_comps)])))))

\* k new object identities, none of them in used
RECURSIVE fresh_ids(_, _, _)
fresh_ids(used, k, from) ==
    IF k = 0 THEN <<>>
    ELSE IF from \in used THEN fresh_ids(used, k, from + 1)
         ELSE <<from>> \o fresh_ids(used, k - 1, from + 1)

\* restriction of a heap to the objects still referenced
restrict(h, live) ==
    CHOOSE r \in { [id \in (DOMAIN g) \cap l |-> g[id]] @@ <<>> :
                   g \in {h}, l \in {live} } : TRUE

NoRef == 0

NoAddress == <<>>

(***************************************************************************)
(* app2.py: PropertyDetailView                                             *)
(***************************************************************************)
\* PropertyDetailView.filter_comps, for a selected property
view_filter_comps(p, vprm, clock) ==
    IF p.comps = <<>> THEN <<>>
    ELSE SelectSeq(p.comps, LAMBDA comp : is_comp_used(p, comp, vprm, clock))

\* PropertyDetailView.calculate_arv: averages the comps' price_per_sqft field
view_calculate_arv(p, vprm) ==
    IF p.comps = <<>> THEN RMul(p.list_price, Q(15, 10))
    ELSE Bind([i \in 1..Len(p.comps) |-> p.comps[i].price_per_sqft] \o <<>>,
              LAMBDA comp_psf :
            RMul(p.square_feet, dashboard_avg_psf(comp_psf, vprm.exclude_outliers)))

\* PropertyDetailView.calculate_repair_costs
view_calculate_repair_costs(p, vprm, st) ==
    LET base_cost == RMul(p.square_feet, vprm.repair_cost_per_sqft)
        kitchen_cost == vprm.kitchen_reno_cost
        bathroom_cost == RMul(vprm.bathroom_reno_cost, p.bathrooms)
        additional_costs ==
            RAdd(RAdd(IF vprm.roof_repair THEN st.REPAIR_COSTS.roof ELSE R(0),
                      IF vprm.hvac_repair THEN st.REPAIR_COSTS.hvac ELSE R(0)),
                 RAdd(IF vprm.electrical_work THEN st.REPAIR_COSTS.electrical ELSE R(0),
                      IF vprm.plumbing_work THEN st.REPAIR_COSTS.plumbing ELSE R(0)))
    IN  RMul(RAdd(RAdd(RAdd(base_cost, kitchen_cost), bathroom_cost), additional_costs),
             Q(11, 10))

\* PropertyDetailView.update_params_from_property
update_params_from_property(vprm, p, prm) ==
    Bind(Range(p.opportunity_keywords), LAMBDA keywords :
        [use_comps_within_miles |-> prm.use_comps_within_miles,
         max_comp_age_months |-> prm.max_comp_age_months,
         min_comp_sqft_pct |-> prm.min_comp_sqft_pct,
         max_comp_sqft_pct |-> prm.max_comp_sqft_pct,
         exclude_outliers |-> prm.exclude_outliers,
         repair_cost_per_sqft |-> prm.repair_cost_per_sqft,
         kitchen_reno_cost |-> prm.kitchen_reno_cost,
         bathroom_reno_cost |-> prm.bathroom_reno_cost,
         flip_months |-> prm.flip_months,
         mortgage_rate |-> prm.mortgage_rate,
         roof_repair |-> vprm.roof_repair
                         \/ keywords \cap {"roof", "leak", "ceiling"} # {},
         hvac_repair |-> vprm.hvac_repair
                         \/ keywords \cap {"hvac", "heat", "cooling", "furnace"} # {},
         electrical_work |-> vprm.electrical_work
                         \/ keywords \cap {"electric", "wiring"} # {},
         plumbing_work |-> vprm.plumbing_work
                         \/ keywords \cap {"plumbing", "pipe", "water"} # {}])

\* PropertyDetailView.create_comp_toggles: comp_{i} is checked when the
\* dashboard's current filters accept the i-th comp
create_comp_toggles(p, prm, clock) ==
    [i \in 1..Len(p.comps) |-> is_comp_used(p, p.comps[i], prm, clock)] \o <<>>

\* index of the first match of a linear search (matches[i]: the i-th element
\* matches), 0 if the loop ends without a match
first_index(matches) ==
    Bind(matches, LAMBDA m :
        IF \E i \in DOMAIN m : m[i]
        THEN CHOOSE i \in DOMAIN m : m[i] /\ \A j \in 1..(i - 1) : ~m[j]
        ELSE 0)

\* PropertyDetailView.select_property: the view it leaves
select_property(v, address, ph, props, dh, dl, prm, clock) ==
    IF address = NoAddress \/ props = <<>> THEN v
    ELSE
    Bind(first_index([k \in DOMAIN props |->
                         get_full_address(ph[props[k]]) = address]), LAMBDA i :
        IF i = 0 THEN v
        ELSE
    Bind(ph[props[i]], LAMBDA prop :
    Bind(first_index([k \in DOMAIN dl |-> dh[dl[k]].address = address]),
         LAMBDA j :
        [v EXCEPT !.selected_property = props[i],
                  !.selected_property_index = i - 1,
                  !.selected_deal = IF j = 0 THEN @ ELSE dl[j],
                  !.prm = update_params_from_property(@, prop, prm),
                  !.comp_toggles = create_comp_toggles(prop, prm, clock)])))

\* the comps recalculate_property_deal puts on the selected property: the
\* checked ones, or the view's automatic filter when none is checked
recalculate_comps(p, v, clock) ==
    Bind({i \in DOMAIN p.comps :
             i \in DOMAIN v.comp_toggles /\ v.comp_toggles[i]}, LAMBDA checked :
    Bind(SelectSeq([i \in 1..Len(p.comps) |-> [i |-> i, comp |-> p.comps[i]]],
                   LAMBDA e : e.i \in checked), LAMBDA manual :
    Bind([k \in 1..Len(manual) |-> manual[k].comp] \o <<>>,
         LAMBDA filtered_comps :
        IF filtered_comps = <<>> THEN view_filter_comps(p, v.prm, clock)
        ELSE filtered_comps)))

(***************************************************************************)
(* app2.py: FlipFinderDashboard.score_deals on the object heap             *)
(***************************************************************************)
\* the deal dicts after property_scorer.score_deals updated them in place
scored_heap(dh, dl) ==
    Bind(with_scores([i \in 1..Len(dl) |-> dh[dl[i]]] \o <<>>), LAMBDA scored :
        [id \in DOMAIN dh |->
            IF \E i \in DOMAIN dl : dl[i] = id
            THEN scored[CHOOSE i \in DOMAIN dl : dl[i] = id]
            ELSE dh[id]] @@ <<>>)

\* the references held by scored_deals after FlipFinderDashboard.score_deals,
\* given the heap of the scored dicts
scored_refs(scored, dl) ==
    IF dl = <<>> THEN <<>>
    ELSE Bind(sort_desc([i \in 1..Len(dl) |->
                  [id |-> dl[i], score |-> scored[dl[i]].score]] \o <<>>),
              LAMBDA keyed : [i \in 1..Len(keyed) |-> keyed[i].id] \o <<>>)

(***************************************************************************)
(* Inputs: the listings and comps the connectors and market data deliver.  *)
(***************************************************************************)
Today == 1000

MaxSteps == 3

\* a comp record of market_data.add_comps: price = square_feet * price_per_sqft
Comp(address, sqft, psf, distance, days_ago) ==
    [address |-> address, sale_date |-> Today - days_ago,
     price |-> RMul(R(sqft), psf), square_feet |-> R(sqft),
     price_per_sqft |-> psf, distance |-> distance]

\* a Property as constructed by a connector and enriched with comps
Listing(id, address, price, baths, sqft, year, dom, kws, comps) ==
    [mls_id |-> id, address |-> address, city |-> "Gaithersburg",
     state |-> "MD", zip_code |-> "20878",
     list_price |-> R(price), bedrooms |-> 3, bathrooms |-> baths,
     square_feet |-> R(sqft), year_built |-> year, days_on_market |-> dom,
     opportunity_keywords |-> kws, comps |-> comps,
     estimated_repair_cost |-> R(0), estimated_arv |-> R(0),
     estimated_profit |-> R(0), estimated_roi |-> R(0)]

OakSt ==
    Listing("M1", "12 Oak St", 200000, R(2), 2000, 1960, 30, <<"fixer", "tlc">>,
        << Comp("Comp 1 near 12 Oak St", 2000, R(100), Q(1, 2), 10),
           Comp("Comp 2 near 12 Oak St", 1800, R(85), Q(3, 10), 40),
           Comp("Comp 3 near 12 Oak St", 2200, R(100), Q(9, 10), 90),
           Comp("Comp 4 near 12 Oak St", 1700, R(115), Q(2, 5), 120),
           Comp("Comp 5 near 12 Oak St", 2300, R(100), R(1), 180) >>)

ElmAve ==
    Listing("M2", "7 Elm Ave", 300000, R(2), 2000, 2010, 60, <<>>,
        << Comp("Comp 1 near 7 Elm Ave", 2000, R(150), Q(1, 5), 15),
           Comp("Comp 2 near 7 Elm Ave", 2200, R(165), Q(7, 10), 30),
           Comp("Comp 3 near 7 Elm Ave", 1800, R(135), Q(2, 5), 60),
           Comp("Comp 4 near 7 Elm Ave", 2100, R(150), Q(1, 2), 75),
           Comp("Comp 5 near 7 Elm Ave", 1900, R(150), Q(3, 5), 150) >>)

PineRd ==
    Listing("M3", "3 Pine Rd", 150000, R(2), 1000, 0, 5, <<"as-is">>,
        << Comp("Comp 1 near 3 Pine Rd", 1000, R(150), Q(9, 10), 20),
           Comp("Comp 2 near 3 Pine Rd", 1100, R(135), Q(4, 5), 50),
           Comp("Comp 3 near 3 Pine Rd", 900, R(165), Q(7, 10), 80),
           Comp("Comp 4 near 3 Pine Rd", 1000, R(150), Q(3, 5), 110),
           Comp("Comp 5 near 3 Pine Rd", 1150, R(150), Q(3, 10), 170) >>)

\* the batches a run of get_properties and enrich_properties may deliver
Listings ==
    { <<OakSt, ElmAve>>, <<ElmAve, OakSt>>, <<PineRd, ElmAve>>, <<PineRd>> }

DefaultParams ==
    [min_roi |-> R(DEFAULT_MIN_ROI),
     use_comps_within_miles |-> R(1),
     max_comp_age_months |-> 6,
     min_comp_sqft_pct |-> Q(8, 10),
     max_comp_sqft_pct |-> Q(12, 10),
     exclude_outliers |-> TRUE,
     repair_cost_per_sqft |-> REPAIR_COSTS.base_sqft_cost,
     kitchen_reno_cost |-> REPAIR_COSTS.kitchen,
     bathroom_reno_cost |-> REPAIR_COSTS.bathroom,
     flip_months |-> R(AVERAGE_FLIP_MONTHS),
     mortgage_rate |-> RMul(HOLDING_COSTS.mortgage_rate, R(100))]

DefaultViewParams ==
    [use_comps_within_miles |-> R(1),
     max_comp_age_months |-> 6,
     min_comp_sqft_pct |-> Q(8, 10),
     max_comp_sqft_pct |-> Q(12, 10),
     exclude_outliers |-> TRUE,
     repair_cost_per_sqft |-> REPAIR_COSTS.base_sqft_cost,
     kitchen_reno_cost |-> REPAIR_COSTS.kitchen,
     bathroom_reno_cost |-> REPAIR_COSTS.bathroom,
     flip_months |-> R(AVERAGE_FLIP_MONTHS),
     mortgage_rate |-> RMul(HOLDING_COSTS.mortgage_rate, R(100)),
     roof_repair |-> FALSE, hvac_repair |-> FALSE,
     electrical_work |-> FALSE, plumbing_work |-> FALSE]

\* PropertyDetailView.__init__
InitialView ==
    [property_address |-> NoAddress,
     selected_property |-> NoRef,
     selected_deal |-> NoRef,
     selected_property_index |-> -1,
     comp_toggles |-> <<>>,
     prm |-> DefaultViewParams]

\* values a user sets in the sidebar of the dashboard
ParamEdits ==
    { <<"use_comps_within_miles", Q(1, 2)>>,
      <<"repair_cost_per_sqft", R(30)>>,
      <<"mortgage_rate", R(10)>> }

\* values a user sets in the parameter panes of the detail view
ViewParamEdits ==
    { <<"use_comps_within_miles", Q(1, 2)>>,
      <<"roof_repair", TRUE>> }

\* edits of a cell of the deal table: column and new value
CellEdits ==
    { <<"List Price", R(250000)>>, <<"List Price", R(0)>>,
      <<"Repair Costs", R(30000)>>, <<"SqFt", R(2500)>>,
      <<"Beds", R(4)>>, <<"Baths", R(4)>> }

NoLog == [op |-> "none", evals |-> <<>>, raised |-> FALSE]

\* the parameters of another FlipFinderDashboard instance served by the same
\* process (one instance per session; config.settings is one module object)
OtherParams ==
    [DefaultParams EXCEPT !.repair_cost_per_sqft = R(30),
                          !.kitchen_reno_cost = R(20000),
                          !.bathroom_reno_cost = R(5000),
                          !.flip_months = R(6),
                          !.mortgage_rate = R(10)]

(***************************************************************************)
(* The dashboard of app2.py as a state machine.                            *)
(***************************************************************************)
DashInit ==
    /\ mode = "dashboard"
    /\ pc = "idle"
    /\ settings = InitialSettings
    /\ now = [day |-> Today, secs |-> 43200]
    /\ params = DefaultParams
    /\ prop_heap = <<>>
    /\ properties = <<>>
    /\ deal_heap = <<>>
    /\ deals = <<>>
    /\ scored_deals = <<>>
    /\ view = InitialView
    /\ steps = 0
    /\ arg = <<>>
    /\ ret = <<>>
    /\ log = NoLog

Refs(v) == IF v = NoRef THEN {} ELSE {v}

\* the deal objects the program still holds
LiveDeals(dl, sd, v) == Range(dl) \cup Range(sd) \cup Refs(v.selected_deal)

\* the property objects the program still holds
LiveProps(props, v) == Range(props) \cup Refs(v.selected_property)

\* FlipFinderDashboard.run_full_analysis on a delivered batch (get_properties,
\* enrich_properties, analyze_deals, score_deals, update_property_list and the
\* selection of the first property)
RunFullAnalysis(batch) ==
    /\ mode = "dashboard"
    /\ steps < MaxSteps
    /\ \E n \in {Len(batch)}, ids \in {fresh_ids(DOMAIN prop_heap, Len(batch), 1)},
          st1 \in {apply_params_to_settings(settings, params)},
          first \in {get_full_address(batch[1])} :
       \E res \in {[i \in 1..n |-> analyze_one(batch[i], params, st1, now)] \o <<>>} :
       \E ph1 \in {[id \in DOMAIN prop_heap \cup Range(ids) |->
                       IF id \in Range(ids)
                       THEN res[CHOOSE i \in 1..n : ids[i] = id].prop
                       ELSE prop_heap[id]] @@ <<>>},
          kept \in {SelectSeq(res, LAMBDA r : ~r.skipped)} :
       \E dids \in {fresh_ids(DOMAIN deal_heap, Len(kept), 1)} :
       \E dh1 \in {[id \in DOMAIN deal_heap \cup Range(dids) |->
                       IF id \in Range(dids)
                       THEN kept[CHOOSE i \in 1..Len(kept) : dids[i] = id].deal
                       ELSE deal_heap[id]] @@ <<>>} :
       \E dh2 \in {scored_heap(dh1, dids)} :
       \E sd \in {scored_refs(dh2, dids)},
          v1 \in {[view EXCEPT !.property_address =
                                  IF @ = NoAddress THEN first ELSE @]} :
       \E v2 \in {IF dids # <<>>
                  THEN select_property([v1 EXCEPT !.property_address = first],
                                       first, ph1, ids, dh2, dids, params, now)
                  ELSE v1} :
           /\ settings' = st1
           /\ properties' = ids
           /\ deals' = dids
           /\ scored_deals' = sd
           /\ view' = v2
           /\ prop_heap' = restrict(ph1, LiveProps(ids, v2))
           /\ deal_heap' = restrict(dh2, LiveDeals(dids, sd, v2))
           /\ log' = [op |-> "analyze_deals",
                      evals |-> [i \in 1..n |->
                                    [address |-> get_full_address(batch[i]),
                                     eligible |-> res[i].eligible,
                                     produced |-> ~res[i].skipped]],
                      raised |-> FALSE]
    /\ steps' = steps + 1
    /\ UNCHANGED <<mode, pc, now, params, arg, ret>>

\* the attribute a cell edit writes on the property
edit_property(p, column, value) ==
    IF column = "List Price" THEN [p EXCEPT !.list_price = value]
    ELSE IF column = "SqFt" THEN [p EXCEPT !.square_feet = value]
    ELSE IF column = "Beds" THEN [p EXCEPT !.bedrooms = RInt(value)]
    ELSE IF column = "Baths" THEN [p EXCEPT !.bathrooms = value]
    ELSE p

\* FlipFinderDashboard.handle_cell_edit for an edit of a row of the deal table
HandleCellEdit(address, column, value) ==
    /\ mode = "dashboard"
    /\ steps < MaxSteps
    /\ \E id \in Range(scored_deals) : deal_heap[id].address = address
    /\ \E i \in {first_index([k \in DOMAIN properties |->
                    get_full_address(prop_heap[properties[k]]) = address])},
          j \in {first_index([k \in DOMAIN deals |->
                    deal_heap[deals[k]].address = address])} :
           IF i = 0
           THEN UNCHANGED <<prop_heap, deal_heap, deals, scored_deals, log>>
           ELSE \E pid \in {properties[i]} :
                \E p1 \in {edit_property(prop_heap[pid], column, value)} :
                    IF j = 0
                    THEN /\ prop_heap' = [prop_heap EXCEPT ![pid] = p1]
                         /\ \E dh2 \in {scored_heap(deal_heap, deals)} :
                            \E sd \in {scored_refs(dh2, deals)} :
                                 /\ deal_heap' = restrict(dh2, LiveDeals(deals, sd, view))
                                 /\ scored_deals' = sd
                         /\ log' = [op |-> "handle_cell_edit", evals |-> <<>>,
                                    raised |-> FALSE]
                         /\ UNCHANGED deals
                    ELSE \E old \in {deals[j]} :
                         \E deal \in {IF column = "Repair Costs"
                                      THEN [deal_heap[old] EXCEPT !.repair_costs = value]
                                      ELSE deal_heap[old]} :
                         \E r \in {analyze_deal(p1, deal.arv, deal.repair_costs,
                                                params.min_roi, settings)},
                            new \in {fresh_ids(DOMAIN deal_heap, 1, 1)[1]} :
                             /\ prop_heap' = [prop_heap EXCEPT ![pid] = r.prop]
                             /\ IF r.raised
                                THEN /\ deal_heap' = [deal_heap EXCEPT ![old] = deal]
                                     /\ UNCHANGED <<deals, scored_deals>>
                                ELSE \E dl \in {[deals EXCEPT ![j] = new]},
                                        dh1 \in {[id \in DOMAIN deal_heap \cup {new} |->
                                                   IF id = new THEN r.deal
                                                   ELSE IF id = old THEN deal
                                                   ELSE deal_heap[id]] @@ <<>>} :
                                     \E dh2 \in {scored_heap(dh1, dl)} :
                                     \E sd \in {scored_refs(dh2, dl)} :
                                         /\ deals' = dl
                                         /\ scored_deals' = sd
                                         /\ deal_heap' = restrict(dh2, LiveDeals(dl, sd, view))
                             /\ log' = [op |-> "handle_cell_edit", evals |-> <<>>,
                                        raised |-> r.raised]
    /\ steps' = steps + 1
    /\ UNCHANGED <<mode, pc, settings, now, params, properties, view, arg, ret>>

\* PropertyDetailView.recalculate_property_deal (the Recalculate Deal button)
RecalculatePropertyDeal ==
    /\ mode = "dashboard"
    /\ steps < MaxSteps
    /\ IF view.selected_property = NoRef \/ view.selected_deal = NoRef
       THEN UNCHANGED <<prop_heap, deal_heap, deals, scored_deals, view, log>>
       ELSE \E pid \in {view.selected_property} :
            \E filtered_comps \in {recalculate_comps(prop_heap[pid], view, now)} :
            \E p1 \in {[prop_heap[pid] EXCEPT !.comps = filtered_comps]} :
            \E repair_costs \in {view_calculate_repair_costs(p1, view.prm, settings)},
               arv \in {view_calculate_arv(p1, view.prm)} :
            \E r \in {analyze_deal(p1, arv, repair_costs, params.min_roi, settings)} :
                /\ prop_heap' = [prop_heap EXCEPT ![pid] = r.prop]
                /\ log' = [op |-> "recalculate_property_deal",
                           evals |-> << [address |-> get_full_address(p1),
                                         eligible |-> Len(filtered_comps),
                                         produced |-> ~r.raised] >>,
                           raised |-> r.raised]
                /\ IF r.raised
                   THEN UNCHANGED <<deal_heap, deals, scored_deals, view>>
                   ELSE \E new \in {fresh_ids(DOMAIN deal_heap, 1, 1)[1]},
                           j \in {IF view.selected_property_index >= 0
                                    /\ view.selected_property_index < Len(properties)
                                 THEN first_index([k \in DOMAIN deals |->
                                        deal_heap[deals[k]].property_id
                                            = r.deal.property_id])
                                 ELSE 0} :
                        \E dl \in {IF j = 0 THEN deals ELSE [deals EXCEPT ![j] = new]},
                           dh1 \in {[id \in DOMAIN deal_heap \cup {new} |->
                                      IF id = new THEN r.deal ELSE deal_heap[id]] @@ <<>>},
                           v1 \in {[view EXCEPT !.selected_deal = new]} :
                        \E dh2 \in {scored_heap(dh1, dl)} :
                        \E sd \in {scored_refs(dh2, dl)} :
                            /\ view' = v1
                            /\ deals' = dl
                            /\ scored_deals' = sd
                            /\ deal_heap' = restrict(dh2, LiveDeals(dl, sd, v1))
    /\ steps' = steps + 1
    /\ UNCHANGED <<mode, pc, settings, now, params, properties, arg, ret>>

\* a change of the property selector, or a click on a row of the deal table
\* (handle_row_click): both end in select_property(address)
SelectProperty(address) ==
    /\ mode = "dashboard"
    /\ steps < MaxSteps
    /\ \E id \in Range(properties) : get_full_address(prop_heap[id]) = address
    /\ \E v1 \in {select_property([view EXCEPT !.property_address = address],
                                   address, prop_heap, properties, deal_heap,
                                   deals, params, now)} :
           /\ view' = v1
           /\ prop_heap' = restrict(prop_heap, LiveProps(properties, v1))
           /\ deal_heap' = restrict(deal_heap, LiveDeals(deals, scored_deals, v1))
    /\ steps' = steps + 1
    /\ log' = [op |-> "select_property", evals |-> <<>>, raised |-> FALSE]
    /\ UNCHANGED <<mode, pc, settings, now, params, properties, deals,
                   scored_deals, arg, ret>>

\* the user changes a parameter in the sidebar
SetParam(name, value) ==
    /\ mode = "dashboard"
    /\ steps < MaxSteps
    /\ params[name] # value
    /\ params' = [params EXCEPT ![name] = value]
    /\ steps' = steps + 1
    /\ UNCHANGED <<mode, pc, settings, now, prop_heap, properties, deal_heap,
                   deals, scored_deals, view, arg, ret, log>>

\* the user changes a parameter of the detail view
SetViewParam(name, value) ==
    /\ mode = "dashboard"
    /\ steps < MaxSteps
    /\ view.prm[name] # value
    /\ view' = [view EXCEPT !.prm[name] = value]
    /\ steps' = steps + 1
    /\ UNCHANGED <<mode, pc, settings, now, params, prop_heap, properties,
                   deal_heap, deals, scored_deals, arg, ret, log>>

\* the user flips the checkboxes comp_{i}, i in flipped, of the detail view
ToggleComps(flipped) ==
    /\ mode = "dashboard"
    /\ steps < MaxSteps
    /\ flipped \subseteq DOMAIN view.comp_toggles
    /\ view' = [view EXCEPT !.comp_toggles =
                    [i \in DOMAIN @ |-> IF i \in flipped THEN ~@[i] ELSE @[i]]
                        \o <<>>]
    /\ steps' = steps + 1
    /\ UNCHANGED <<mode, pc, settings, now, params, prop_heap, properties,
                   deal_heap, deals, scored_deals, arg, ret, log>>

\* a day passes on the wall clock
Tick ==
    /\ mode = "dashboard"
    /\ steps < MaxSteps
    /\ now' = [now EXCEPT !.day = @ + 1]
    /\ steps' = steps + 1
    /\ UNCHANGED <<mode, pc, settings, params, prop_heap, properties, deal_heap,
                   deals, scored_deals, view, arg, ret, log>>

\* analyze_deals of the other dashboard instance, between two handlers of
\* this one: it writes its parameters into the settings module; its
\* properties and deals are its own
OtherAnalyzeDeals ==
    /\ mode = "dashboard"
    /\ steps < MaxSteps
    /\ settings' = apply_params_to_settings(settings, OtherParams)
    /\ steps' = steps + 1
    /\ UNCHANGED <<mode, pc, now, params, prop_heap, properties, deal_heap,
                   deals, scored_deals, view, arg, ret, log>>

\* the checkboxes a user flips before recalculating
ToggleSets == {{1}, {2, 3}, {3, 4, 5}, {1, 2, 3, 4, 5}}

Next ==
    \/ \E batch \in Listings : RunFullAnalysis(batch)
    \/ \E a \in {get_full_address(OakSt), get_full_address(ElmAve),
                 get_full_address(PineRd)}, e \in CellEdits :
          HandleCellEdit(a, e[1], e[2])
    \/ RecalculatePropertyDeal
    \/ \E a \in {get_full_address(OakSt), get_full_address(ElmAve),
                 get_full_address(PineRd)} : SelectProperty(a)
    \/ \E e \in ParamEdits : SetParam(e[1], e[2])
    \/ \E e \in ViewParamEdits : SetViewParam(e[1], e[2])
    \/ \E flipped \in ToggleSets : ToggleComps(flipped)
    \/ Tick
    \/ OtherAnalyzeDeals

Spec == DashInit /\ [][Next]_vars

(***************************************************************************)
(* The functions of the pipeline taken one at a time: the inputs are drawn *)
(* in the initial state and one step applies the function.                 *)
(***************************************************************************)
\* the dashboard part of the state, idle
Idle(m) ==
    /\ mode = m
    /\ pc = "call"
    /\ now = [day |-> Today, secs |-> 43200]
    /\ params = DefaultParams
    /\ prop_heap = <<>>
    /\ properties = <<>>
    /\ deal_heap = <<>>
    /\ deals = <<>>
    /\ scored_deals = <<>>
    /\ view = InitialView
    /\ steps = 0
    /\ ret = <<>>
    /\ log = NoLog

\* the settings after analyze_deals of a dashboard with the parameters
\* OtherParams
TunedSettings == apply_params_to_settings(InitialSettings, OtherParams)

RepairYears == {0, 2026, 2011, 2010, 2006, 2005, 1996, 1995, 1976, 1975, 1966}

RepairSqft == {1000, 1500, 2200, 3000}

RepairBaths == {R(1), Q(5, 2), R(3)}

RepairKeywords ==
    { <<>>, <<"as-is">>, <<"fixer">>, <<"dated">>, <<"dated", "tlc">>,
      <<"update", "original">> }

RepairInit ==
    /\ Idle("estimate_repairs")
    /\ settings \in {InitialSettings, TunedSettings}
    /\ arg \in { Listing("M1", "12 Oak St", 200000, b, sq, y, 30, k, <<>>) :
                    b \in RepairBaths, sq \in RepairSqft, y \in RepairYears,
                    k \in RepairKeywords }

\* repair_costs = deal_analyzer.estimate_repairs(prop)
EstimateRepairs ==
    /\ mode = "estimate_repairs"
    /\ pc = "call"
    /\ ret' = estimate_repairs(arg, settings)
    /\ pc' = "done"
    /\ UNCHANGED <<mode, settings, now, params, prop_heap, properties, deal_heap,
                   deals, scored_deals, view, steps, arg, log>>

SpecRepairs == RepairInit /\ [][EstimateRepairs]_vars

(***************************************************************************)
(* deal_analyzer.analyze_deal on its own.                                  *)
(***************************************************************************)
DealListPrices == {0, 100000, 194000, 200000, 250000}

DealArvs == {0, 300000, 320000, 400000}

DealRepairs == {0, 30000, 50000, 86000}

DealMinRois == {5, DEFAULT_MIN_ROI}

DealInit ==
    /\ Idle("analyze_deal")
    /\ settings \in {InitialSettings, TunedSettings}
    /\ arg \in { [p |-> Listing("M1", "12 Oak St", lp, R(2), 2000, 1960, 30,
                                <<"fixer">>, <<>>),
                  arv |-> R(a), repair_costs |-> R(rc), min_roi |-> R(mr)] :
                    lp \in DealListPrices, a \in DealArvs, rc \in DealRepairs,
                    mr \in DealMinRois }

\* deal = deal_analyzer.analyze_deal(property_data, arv, repair_costs, min_roi)
AnalyzeDeal ==
    /\ mode = "analyze_deal"
    /\ pc = "call"
    /\ ret' = analyze_deal(arg.p, arg.arv, arg.repair_costs, arg.min_roi, settings)
    /\ pc' = "done"
    /\ UNCHANGED <<mode, settings, now, params, prop_heap, properties, deal_heap,
                   deals, scored_deals, view, steps, arg, log>>

SpecDeal == DealInit /\ [][AnalyzeDeal]_vars

(***************************************************************************)
(* The three ARV estimators on their own: deal_analyzer.calculate_arv,     *)
(* FlipFinderDashboard.calculate_arv and PropertyDetailView.calculate_arv. *)
(***************************************************************************)
\* the longest comp list of the enumerated ones: the sample count up to
\* which the dashboards' estimators do not filter
MaxSamples == 5

\* comps given as <<square_feet, price per square foot>> pairs
ArvComps(pairs) ==
    [i \in 1..Len(pairs) |->
        Comp("comp", pairs[i][1], R(pairs[i][2]), Q(1, 2), 30)] \o <<>>

ArvCompLists ==
    { <<>>,
      <<<<0, 100>>>>,
      <<<<0, 100>>, <<0, 200>>>>,
      <<<<1000, 200>>, <<1000, 220>>, <<1000, 210>>>>,
      <<<<1000, 100>>, <<1200, 150>>, <<800, 200>>, <<1000, 150>>, <<1000, 400>>>>,
      <<<<1000, 100>>, <<1000, 100>>, <<1000, 100>>, <<1000, 100>>, <<1000, 100>>,
        <<1000, 400>>>>,
      <<<<1000, 100>>, <<1000, 110>>, <<1000, 120>>, <<1000, 100>>, <<1000, 110>>,
        <<1000, 120>>>>,
      <<<<1000, 100>>, <<1000, 100>>, <<1000, 100>>, <<0, 100>>, <<1000, 100>>,
        <<1000, 400>>>>,
      <<<<1000, 100>>, <<1000, 100>>, <<0, 700>>, <<1000, 100>>, <<1000, 100>>,
        <<1000, 100>>, <<1000, 400>>>> }
    \cup UNION { [1..n -> {<<1000, 100>>, <<800, 200>>, <<1000, 400>>}] :
                    n \in 1..MaxSamples }

ArvListPrices == {200000, 300000}

ArvSqft == {1000, 2000}

ArvInit ==
    /\ Idle("calculate_arv")
    /\ settings = InitialSettings
    /\ arg \in { [p |-> Listing("M1", "12 Oak St", lp, R(2), sf, 1990, 30, <<>>,
                                ArvComps(cl)),
                  exclude_outliers |-> flag] :
                    lp \in ArvListPrices, sf \in ArvSqft, cl \in ArvCompLists,
                    flag \in BOOLEAN }

ArvReturn(estimator, value) ==
    /\ pc = "call"
    /\ ret' = [estimator |-> estimator, arv |-> value]
    /\ pc' = "done"
    /\ UNCHANGED <<mode, settings, now, params, prop_heap, properties, deal_heap,
                   deals, scored_deals, view, steps, arg, log>>

\* main.py: arv = deal_analyzer.calculate_arv(prop)
BatchCalculateArv ==
    /\ mode = "calculate_arv"
    /\ ArvReturn("deal_analyzer", calculate_arv(arg.p))

\* FlipFinderDashboard.analyze_deals: arv = self.calculate_arv(prop)
DashboardCalculateArv ==
    /\ mode = "calculate_arv"
    /\ ArvReturn("dashboard",
           dashboard_calculate_arv(arg.p,
               [DefaultParams EXCEPT !.exclude_outliers = arg.exclude_outliers]))

\* PropertyDetailView.calculate_arv, called by recalculate_property_deal
\* (arv = self.calculate_arv()) or directly.  Its first test,
\*   if not self.selected_property or not self.selected_property.comps:
\*       return self.selected_property.list_price * 1.5
\* reads list_price of None when the view has no selected property: the call
\* ends in an AttributeError instead of returning.
ViewCalculateArv ==
    /\ mode = "calculate_arv"
    /\ \E selected \in BOOLEAN :
        IF selected
        THEN ArvReturn("detail_view",
                 view_calculate_arv(arg.p,
                     [DefaultViewParams EXCEPT
                         !.exclude_outliers = arg.exclude_outliers]))
        ELSE /\ pc = "call"
             /\ ret' = [estimator |-> "detail_view", error |-> "AttributeError"]
             /\ pc' = "raised"
             /\ UNCHANGED <<mode, settings, now, params, prop_heap, properties,
                            deal_heap, deals, scored_deals, view, steps, arg, log>>

ArvNext == BatchCalculateArv \/ DashboardCalculateArv \/ ViewCalculateArv

SpecArv == ArvInit /\ [][ArvNext]_vars

(***************************************************************************)
(* filter_comps on its own.                                                *)
(***************************************************************************)
MaxComps == 3

\* comps around a 2000 sqft subject: inside, on each inclusive bound, and
\* just outside a single bound
FilterCompPool ==
    { Comp("1 Inside Ct", 2000, R(150), Q(1, 2), 10),
      Comp("2 Bounds Ct", 1600, R(150), R(1), 180),
      Comp("3 Upper Ct", 2400, R(150), Q(1, 2), 30),
      Comp("4 Small Ct", 1599, R(150), Q(1, 2), 10),
      Comp("5 Large Ct", 2401, R(150), Q(1, 2), 10),
      Comp("6 Far Ct", 2000, R(150), R(2), 10),
      Comp("7 Old Ct", 2000, R(150), Q(1, 2), 181) }

FilterCompLists ==
    UNION { [1..n -> FilterCompPool] : n \in 0..MaxComps }

FilterParams ==
    { DefaultParams,
      [DefaultParams EXCEPT !.use_comps_within_miles = Q(1, 2),
                            !.max_comp_age_months = 1],
      [DefaultParams EXCEPT !.min_comp_sqft_pct = Q(1, 2),
                            !.max_comp_sqft_pct = R(2),
                            !.use_comps_within_miles = R(2),
                            !.max_comp_age_months = 12] }

FilterInit ==
    /\ mode = "filter_comps"
    /\ pc = "call"
    /\ now \in {[day |-> Today, secs |-> 0], [day |-> Today, secs |-> 43200]}
    /\ params \in FilterParams
    /\ settings = InitialSettings
    /\ prop_heap = <<>>
    /\ properties = <<>>
    /\ deal_heap = <<>>
    /\ deals = <<>>
    /\ scored_deals = <<>>
    /\ view = InitialView
    /\ steps = 0
    /\ ret = <<>>
    /\ log = NoLog
    /\ arg \in { [p |-> Listing("M1", "12 Oak St", 200000, R(2), 2000, 1990, 30,
                                <<>>, cl \o <<>>)] : cl \in FilterCompLists }

FilterReturn(by, comps) ==
    /\ mode = "filter_comps"
    /\ pc = "call"
    /\ ret' = [by |-> by, comps |-> comps]
    /\ pc' = "done"
    /\ UNCHANGED <<mode, settings, now, params, prop_heap, properties, deal_heap,
                   deals, scored_deals, view, steps, arg, log>>

\* FlipFinderDashboard.analyze_deals: filtered_comps = self.filter_comps(prop)
DashboardFilterComps == FilterReturn("dashboard", filter_comps(arg.p, params, now))

\* PropertyDetailView.recalculate_property_deal:
\* filtered_comps = self.filter_comps(self.selected_property), with the view's
\* parameters equal to the dashboard's
ViewFilterComps ==
    FilterReturn("detail_view", view_filter_comps(arg.p,
        [DefaultViewParams EXCEPT
            !.use_comps_within_miles = params.use_comps_within_miles,
            !.max_comp_age_months = params.max_comp_age_months,
            !.min_comp_sqft_pct = params.min_comp_sqft_pct,
            !.max_comp_sqft_pct = params.max_comp_sqft_pct], now))

FilterNext == DashboardFilterComps \/ ViewFilterComps

SpecFilter == FilterInit /\ [][FilterNext]_vars

(***************************************************************************)
(* repair_estimator on its own.                                            *)
(***************************************************************************)
EstimatorDescriptions ==
    { "", "Charming home on a quiet street",
      "Foundation and electrical issues", "Roof leak in the garage",
      "New roof, dated kitchen", "Original owner, dated baths", "Older home",
      "Fixer with potential", "Great opportunity", "Heating problem, updated kitchen",
      "HVAC issue", "New furnace", "Ceiling stain", "Structural crack, old pipes, Wiring" }

EstimatorKeywords ==
    { <<>>, <<"fixer">>, <<"dated">>, <<"fixer", "tlc">>, <<"handyman">>,
      <<"original", "older">> }

EstimatorYears == {0, 2016, 1996, 1995, 1976, 1975}

EstimatorBaths == {R(1), Q(5, 2), R(4)}

EstimatorInit ==
    /\ Idle("repair_estimator")
    /\ settings = InitialSettings
    /\ arg \in { [description |-> d]
                    @@ Listing("M1", "12 Oak St", 200000, b, 1200, y, 30, k, <<>>) :
                  d \in EstimatorDescriptions, k \in EstimatorKeywords,
                  y \in EstimatorYears, b \in EstimatorBaths }

EstimatorReturn(fn, value) ==
    /\ mode = "repair_estimator"
    /\ pc = "call"
    /\ ret' = [fn |-> fn, value |-> value]
    /\ pc' = "done"
    /\ UNCHANGED <<mode, settings, now, params, prop_heap, properties, deal_heap,
                   deals, scored_deals, view, steps, arg, log>>

\* level = repair_estimator.estimate_renovation_level(prop)
EstimateRenovationLevel ==
    EstimatorReturn("estimate_renovation_level", estimate_renovation_level(arg))

\* repairs = repair_estimator.detailed_repair_estimate(prop)
DetailedRepairEstimate ==
    EstimatorReturn("detailed_repair_estimate", detailed_repair_estimate(arg))

EstimatorNext == EstimateRenovationLevel \/ DetailedRepairEstimate

SpecEstimator == EstimatorInit /\ [][EstimatorNext]_vars

(***************************************************************************)
(* data/mls_connector.py and data/redfin_connector.py: a listing converted *)
(* to a Property, then deal_analyzer.estimate_repairs on it.               *)
(***************************************************************************)
\* an extraction whose vocabulary also has the moderate repair keywords
extract_remark_words(terms, remarks) ==
    SelectSeq(terms \o moderate_repair_keywords, LAMBDA term : in_text(term, remarks))

\* extract_opportunity_keywords: the terms found in the lower-cased remarks,
\* in the order of the vocabulary
extract_opportunity_keywords(terms, remarks) ==
    SelectSeq(terms, LAMBDA term : in_text(term, remarks))

\* convert_to_property_objects on one listing: remarks is PublicRemarks
\* (MLS) or REMARKS (Redfin), more_remarks is PrivateRemarks or PUBLIC REMARKS
convert_to_property(prop_data) ==
    Bind(lower(prop_data.remarks \o " " \o prop_data.more_remarks), LAMBDA text :
        [description |-> prop_data.remarks]
            @@ Listing(IF prop_data.connector = "redfin" THEN "REDFIN_M1" ELSE "M1",
                       "12 Oak St", 200000, R(2), 2000, prop_data.year_built, 30,
                       extract_opportunity_keywords(OPPORTUNITY_KEYWORDS, text),
                       <<>>))

ConnectorInit ==
    /\ Idle("connector")
    /\ settings = InitialSettings
    /\ arg \in { [connector |-> c, remarks |-> r, more_remarks |-> m,
                   year_built |-> y] :
                    c \in {"mls", "redfin"},
                    r \in { "", "Charming colonial on a quiet street",
                            "Dated kitchen, original baths, update needed",
                            "Dated kitchen, original baths, NEEDS WORK",
                            "Fixer-upper sold AS-IS, bring offer",
                            "Renovate or restore this handyman special",
                            "Estate sale. Ready for your updates",
                            "Recent renovation, priced to sell" },
                    m \in { "", "Investor special", "Seller will update roof" },
                    y \in {0, 2016, 1996, 1966} }

\* property_obj = Property(...); property_obj.opportunity_keywords =
\* self.extract_opportunity_keywords(prop_data); the pipeline then calls
\* estimate_repairs on the property
ConvertToProperty ==
    /\ mode = "connector"
    /\ pc = "call"
    /\ arg' = convert_to_property(arg)
    /\ mode' = "estimate_repairs"
    /\ UNCHANGED <<pc, settings, now, params, prop_heap, properties, deal_heap,
                   deals, scored_deals, view, steps, ret, log>>

SpecConnector == ConnectorInit /\ [][ConvertToProperty \/ EstimateRepairs]_vars

(***************************************************************************)
(* property_scorer.score_deals on its own.                                 *)
(***************************************************************************)
MaxBatch == 3

\* the property ids of a batch, by position
DealIds == <<"D1", "D2", "D3", "D4", "D5">>

\* the part of a deal dict score_deals reads and writes
ScoreDeal(id, profit, roi, repair, dom, kws, rule) ==
    [property_id |-> id, potential_profit |-> R(profit), roi |-> R(roi),
     repair_costs |-> R(repair), meets_70_percent_rule |-> rule,
     property_data |-> [days_on_market |-> dom, opportunity_keywords |-> kws],
     scored |-> FALSE, score |-> R(0)]

\* seven kinds of deal: the best and the worst on every metric, four with the
\* same middle metrics and different bonuses (one keyword; six keywords; the
\* 70% rule; none), and the best on every metric with six keywords
ScoreKinds ==
    << [profit |-> 30000, roi |-> 30, repair |-> 20000, dom |-> 30,
        kws |-> <<>>, rule |-> TRUE],
       [profit |-> 10000, roi |-> 10, repair |-> 40000, dom |-> 10,
        kws |-> <<>>, rule |-> FALSE],
       [profit |-> 20000, roi |-> 20, repair |-> 30000, dom |-> 20,
        kws |-> <<"fixer">>, rule |-> FALSE],
       [profit |-> 20000, roi |-> 20, repair |-> 30000, dom |-> 20,
        kws |-> <<"fixer", "tlc", "as-is", "estate", "dated", "motivated">>,
        rule |-> FALSE],
       [profit |-> 20000, roi |-> 20, repair |-> 30000, dom |-> 20,
        kws |-> <<>>, rule |-> TRUE],
       [profit |-> 20000, roi |-> 20, repair |-> 30000, dom |-> 20,
        kws |-> <<>>, rule |-> FALSE],
       [profit |-> 30000, roi |-> 30, repair |-> 20000, dom |-> 30,
        kws |-> <<"fixer", "tlc", "as-is", "estate", "dated", "motivated">>,
        rule |-> TRUE] >>

\* the batch whose i-th deal is of kind kinds[i]
ScoreBatch(kinds) ==
    [i \in 1..Len(kinds) |->
        ScoreDeal(DealIds[i], ScoreKinds[kinds[i]].profit, ScoreKinds[kinds[i]].roi,
                  ScoreKinds[kinds[i]].repair, ScoreKinds[kinds[i]].dom,
                  ScoreKinds[kinds[i]].kws, ScoreKinds[kinds[i]].rule)] \o <<>>

ScoreInit ==
    /\ Idle("score_deals")
    /\ settings = InitialSettings
    /\ arg \in { ScoreBatch(kinds) :
                    kinds \in UNION {[1..n -> DOMAIN ScoreKinds] : n \in 0..MaxBatch} }

\* scored_deals = property_scorer.score_deals(deals)
ScoreDeals ==
    /\ mode = "score_deals"
    /\ pc = "call"
    /\ ret' = score_deals(arg)
    /\ pc' = "done"
    /\ UNCHANGED <<mode, settings, now, params, prop_heap, properties, deal_heap,
                   deals, scored_deals, view, steps, arg, log>>

\* a second scoring with nothing changed in between: of the returned list,
\* or, as FlipFinderDashboard.score_deals does, of the same list of deal
\* dicts again (self.deals, whose dicts carry the scores of the first pass)
RescoreDeals ==
    /\ mode = "score_deals"
    /\ pc = "done"
    /\ \E again \in {ret, with_scores(arg)} : ret' = score_deals(again)
    /\ pc' = "rescored"
    /\ UNCHANGED <<mode, settings, now, params, prop_heap, properties, deal_heap,
                   deals, scored_deals, view, steps, arg, log>>

SpecScore == ScoreInit /\ [][ScoreDeals \/ RescoreDeals]_vars

(***************************************************************************)
(* Claims                                                                  *)
(***************************************************************************)
C10_AgeTier(p) ==
    CASE ~AgeKnown(p) -> R(1)
      [] AgeKnown(p) /\ Age(p) >= 51 -> Q(3, 2)
      [] AgeKnown(p) /\ Age(p) \in 31..50 -> Q(13, 10)
      [] AgeKnown(p) /\ Age(p) \in 16..30 -> Q(11, 10)
      [] OTHER -> R(1)

C10_ConditionTier(p) ==
    LET has(words) == Range(p.opportunity_keywords) \cap words # {}
    IN  IF has({"fixer", "needs work", "tlc", "handyman", "distressed"}) THEN Q(3, 2)
        ELSE IF has({"dated", "original", "renovate", "update"}) THEN Q(5, 4)
        ELSE R(1)

C10_Base(p, st) ==
    RMul(RMul(RMul(p.square_feet, st.REPAIR_COSTS.base_sqft_cost), C10_AgeTier(p)),
         C10_ConditionTier(p))

\* what was added to the base before the contingency: ret / 1.1 - base
C10_Extras(p, st, result) == RSub(RDiv(result, Q(11, 10)), C10_Base(p, st))

\* C10: estimate_repairs returns 1.1 * (sqft * base_cost_per_sqft * age_factor *
\* condition_factor + extras), with the age tiers 1.5 (>50), 1.3 (>30), 1.1 (>15)
\* and 1.0 otherwise or when the age is unknown, the condition factor 1.5 for a
\* high-repair keyword, else 1.25 for a moderate keyword, else 1.0, and extras
\* (kitchen and bathroom costs) added only when age > 20.
C10_EstimateRepairsFormula ==
    (mode = "estimate_repairs" /\ pc = "done") =>
        LET extras == C10_Extras(arg, settings, ret)
            baths == RMul(settings.REPAIR_COSTS.bathroom, RMin(arg.bathrooms, R(2)))
        IN  IF AgeKnown(arg) /\ Age(arg) > 20
            THEN \/ REq(extras, baths)
                 \/ REq(extras, RAdd(settings.REPAIR_COSTS.kitchen, baths))
            ELSE REq(extras, R(0))

\* an estimate for a 50-year-old house with a moderate and a high keyword:
\* age tier 1.3, condition factor 1.5, extras added
C10_Witness ==
    /\ mode = "estimate_repairs" /\ pc = "done"
    /\ Age(arg) = 50 /\ AgeKnown(arg)
    /\ arg.opportunity_keywords = <<"dated", "tlc">>
    /\ arg.square_feet = R(1000)
    /\ arg.bathrooms = R(3)
    /\ settings = InitialSettings
    /\ ret = Q(11 * (1000 * 20 * 13 * 15 + 1500000), 1000)

\* the three equations of a deal record
C1_Equations(d) ==
    /\ REq(d.total_project_cost,
           RAdd(RAdd(RAdd(d.list_price, d.repair_costs), d.closing_costs),
                d.holding_costs))
    /\ REq(d.potential_profit, RSub(d.arv, d.total_project_cost))
    /\ d.total_project_cost.n # 0
    /\ REq(d.roi, RMul(RDiv(d.potential_profit, d.total_project_cost), R(100)))

\* C1: every deal record the dashboard holds (deal list, scored list, the
\* detail view's selected deal) satisfies total_project_cost = list_price +
\* repair_costs + closing_costs + holding_costs, potential_profit = arv -
\* total_project_cost and roi = potential_profit / total_project_cost * 100.
C1_HeldDealsSatisfyEquations ==
    mode = "dashboard" =>
        \A id \in LiveDeals(deals, scored_deals, view) : C1_Equations(deal_heap[id])

\* C2: a deal produced by analyze_deal has max_purchase_price = 0.7 * arv -
\* repair_costs and meets_70_percent_rule exactly when list_price <=
\* max_purchase_price; list_price 200000, arv 320000, repair_costs 30000 give
\* 194000 and false.
C2_SeventyPercentRule ==
    (mode = "analyze_deal" /\ pc = "done" /\ ~ret.raised) =>
        LET d == ret.deal
            limit == RSub(RMul(Q(7, 10), arg.arv), arg.repair_costs)
        IN  /\ REq(d.max_purchase_price, limit)
            /\ d.meets_70_percent_rule <=> RLe(arg.p.list_price, limit)
            /\ (arg.p.list_price = R(200000) /\ arg.arv = R(320000)
                    /\ arg.repair_costs = R(30000))
               => (d.max_purchase_price = R(194000) /\ ~d.meets_70_percent_rule)

\* the boundary of the rule: a list price equal to the maximum purchase price
C2_Witness ==
    /\ mode = "analyze_deal" /\ pc = "done" /\ ~ret.raised
    /\ arg.p.list_price = R(194000) /\ arg.arv = R(320000)
    /\ arg.repair_costs = R(30000)
    /\ ret.deal.max_purchase_price = R(194000)
    /\ ret.deal.meets_70_percent_rule

\* the price-per-sqft samples an estimator works on
C3_Samples(estimator, comps) ==
    IF estimator = "detail_view"
    THEN [i \in 1..Len(comps) |-> comps[i].price_per_sqft]
    ELSE LET ok == SelectSeq(comps, LAMBDA c : RLt(R(0), c.square_feet))
         IN  [i \in 1..Len(ok) |-> RDiv(ok[i].price, ok[i].square_feet)]

C3_Mean(xs) == RDiv(RSum(xs), R(Len(xs)))

\* samples within 2 population standard deviations of the mean
C3_Within2Sigma(xs) ==
    LET m == C3_Mean(xs)
        sq(x) == RMul(RSub(x, m), RSub(x, m))
        variance == C3_Mean([i \in 1..Len(xs) |-> sq(xs[i])])
    IN  SelectSeq(xs, LAMBDA x : RLe(sq(x), RMul(R(4), variance)))

C3_Retained(xs, exclude_outliers) ==
    IF exclude_outliers /\ Len(xs) > 5
    THEN IF C3_Within2Sigma(xs) = <<>> THEN xs ELSE C3_Within2Sigma(xs)
    ELSE xs

\* C3: in every ARV estimator outliers are rejected only when the
\* exclude-outliers flag is on and there are more than 5 samples (keeping the
\* samples within 2 population standard deviations of the mean); otherwise all
\* samples are averaged; ARV = subject square footage * average of the
\* retained samples.
C3_OutlierRejectionGated ==
    (mode = "calculate_arv" /\ pc = "done") =>
        LET xs == C3_Samples(ret.estimator, arg.p.comps)
        IN  xs # <<>> =>
                REq(ret.arv,
                    RMul(arg.p.square_feet,
                         C3_Mean(C3_Retained(xs, arg.exclude_outliers))))

\* the estimators named by the fallback rule
C4_Estimators == {"deal_analyzer", "dashboard"}

\* C4: with an empty comp list, or with no comp of square footage > 0, the
\* ARV estimator returns list_price * 1.5 (300000 gives 450000).
C4_FallbackArv ==
    (mode = "calculate_arv" /\ pc = "done" /\ ret.estimator \in C4_Estimators) =>
        ((\A i \in 1..Len(arg.p.comps) : ~RLt(R(0), arg.p.comps[i].square_feet))
            => /\ REq(ret.arv, RDiv(RMul(arg.p.list_price, R(3)), R(2)))
               /\ arg.p.list_price = R(300000) => ret.arv = R(450000))

\* comps present, none with a positive square footage
C4_Witness ==
    /\ mode = "calculate_arv" /\ pc = "done"
    /\ ret.estimator = "deal_analyzer"
    /\ Len(arg.p.comps) = 2
    /\ \A i \in 1..Len(arg.p.comps) : arg.p.comps[i].square_feet = R(0)
    /\ arg.p.list_price = R(300000)
    /\ ret.arv = R(450000)

\* the four constraints of the comp filter
C5_Eligible(c, subject, prm, clock) ==
    /\ RLe(RMul(subject.square_feet, prm.min_comp_sqft_pct), c.square_feet)
    /\ RLe(c.square_feet, RMul(subject.square_feet, prm.max_comp_sqft_pct))
    /\ RLe(c.distance, prm.use_comps_within_miles)
    /\ c.sale_date >= clock.day - prm.max_comp_age_months * 30

\* the eligible comps, in their original order
RECURSIVE C5_Kept(_, _, _, _)
C5_Kept(cs, subject, prm, clock) ==
    IF cs = <<>> THEN <<>>
    ELSE (IF C5_Eligible(Head(cs), subject, prm, clock) THEN <<Head(cs)>> ELSE <<>>)
         \o C5_Kept(Tail(cs), subject, prm, clock)

\* C5: filter_comps returns exactly the property's comps, in their original
\* order, that satisfy all four constraints (square footage between the two
\* percentages of the subject's, distance within the maximum, sale date not
\* before now - max_age_months*30 days; all bounds inclusive); a comp failing a
\* single constraint is excluded.
C5_FilterCompsExact ==
    (mode = "filter_comps" /\ pc = "done") =>
        /\ ret.comps = C5_Kept(arg.p.comps, arg.p, params, now)
        /\ \A i \in 1..Len(ret.comps) :
                ret.comps[i].distance # R(2) \/ params.use_comps_within_miles # R(1)

\* a comp on every inclusive bound is kept, one two miles away is dropped
C5_Witness ==
    /\ mode = "filter_comps" /\ pc = "done"
    /\ params = DefaultParams
    /\ Len(arg.p.comps) = 3
    /\ arg.p.comps[1].address = "6 Far Ct"
    /\ arg.p.comps[2].address = "2 Bounds Ct"
    /\ arg.p.comps[3].address = "1 Inside Ct"
    /\ ret.comps = <<arg.p.comps[2], arg.p.comps[3]>>

\* C6: no evaluation of a property with fewer than 3 eligible comps produces
\* a deal, in the batch analysis and in the per-property recalculation.
C6_FewCompsSkipped ==
    mode = "dashboard" =>
        \A i \in DOMAIN log.evals :
            log.evals[i].eligible < 3 => ~log.evals[i].produced

\* the smallest and the largest value of a metric across the batch
C7_Lo(S) == CHOOSE x \in S : \A y \in S : RLe(x, y)

C7_Hi(S) == CHOOSE x \in S : \A y \in S : RLe(y, x)

\* weight * (value - min) / (max - min), 0 when max = min
C7_Term(weight, value, S) ==
    IF C7_Hi(S) = C7_Lo(S) THEN R(0)
    ELSE RDiv(RMul(R(weight), RSub(value, C7_Lo(S))), RSub(C7_Hi(S), C7_Lo(S)))

C7_Bonus(d) ==
    (IF Len(d.property_data.opportunity_keywords) < SCORING.opportunity_keywords_weight
     THEN Len(d.property_data.opportunity_keywords)
     ELSE SCORING.opportunity_keywords_weight)
    + (IF d.meets_70_percent_rule THEN SCORING.meets_70_rule_weight ELSE 0)

C7_Expected(d, batch) ==
    LET profits == {batch[k].potential_profit : k \in DOMAIN batch}
        rois    == {batch[k].roi : k \in DOMAIN batch}
        repairs == {batch[k].repair_costs : k \in DOMAIN batch}
        doms    == {R(batch[k].property_data.days_on_market) : k \in DOMAIN batch}
    IN  RAdd(RAdd(C7_Term(SCORING.profit_weight, d.potential_profit, profits),
                  C7_Term(SCORING.roi_weight, d.roi, rois)),
             RAdd(RAdd(RSub(C7_Term(SCORING.repair_cost_weight, C7_Hi(repairs), repairs),
                            C7_Term(SCORING.repair_cost_weight, d.repair_costs, repairs)),
                       C7_Term(SCORING.dom_weight,
                               R(d.property_data.days_on_market), doms)),
                  R(C7_Bonus(d))))

C7_SameMetrics(batch) ==
    \A i, k \in DOMAIN batch :
        /\ batch[i].potential_profit = batch[k].potential_profit
        /\ batch[i].roi = batch[k].roi
        /\ batch[i].repair_costs = batch[k].repair_costs
        /\ batch[i].property_data.days_on_market = batch[k].property_data.days_on_market

\* C7: score_deals gives every deal of a non-empty batch the score
\* w_profit*(profit-min)/(max-min) + w_roi*(roi-min)/(max-min) +
\* w_repair*(1-(repair-min)/(max-min)) + w_dom*(dom-min)/(max-min) +
\* min(keyword cap, number of keywords) + the 70%-rule bonus, a metric whose
\* max equals its min contributing 0; a batch of deals with identical metrics
\* is ranked by bonus total only.
C7_ScoreFormula ==
    (mode = "score_deals" /\ pc = "done") =>
        /\ \A i \in DOMAIN arg :
              \E j \in DOMAIN ret :
                  /\ ret[j].property_id = arg[i].property_id
                  /\ ret[j].scored
                  /\ ret[j].score = C7_Expected(arg[i], arg)
        /\ C7_SameMetrics(arg) =>
              /\ \A j \in DOMAIN ret : ret[j].score = R(C7_Bonus(ret[j]))
              /\ \A j, k \in DOMAIN ret :
                    j < k => C7_Bonus(ret[j]) >= C7_Bonus(ret[k])

\* the best deal, a middle deal with six keywords and the worst deal
C7_Witness ==
    /\ mode = "score_deals" /\ pc = "done"
    /\ arg = ScoreBatch(<<1, 4, 2>>)
    /\ [j \in DOMAIN ret |-> ret[j].score] = <<R(100), Q(105, 2), R(0)>>

\* C8: the list returned by score_deals is a permutation of the input batch
\* (no deal dropped, none duplicated), ordered by non-increasing score.
C8_PermutationNonIncreasing ==
    (mode = "score_deals" /\ pc = "done") =>
        /\ Len(ret) = Len(arg)
        /\ \A i \in DOMAIN arg :
              /\ Cardinality({j \in DOMAIN ret :
                                 ret[j].property_id = arg[i].property_id}) = 1
              /\ \E j \in DOMAIN ret :
                    [ret[j] EXCEPT !.scored = FALSE, !.score = R(0)] = arg[i]
        /\ \A j \in 1..(Len(ret) - 1) : RLe(ret[j + 1].score, ret[j].score)

\* a batch given worst first comes back best first
C8_Witness ==
    /\ mode = "score_deals" /\ pc = "done"
    /\ arg = ScoreBatch(<<2, 1, 3>>)
    /\ [j \in DOMAIN ret |-> ret[j].property_id] = <<"D2", "D3", "D1">>

\* the position of a returned deal in the input batch
C9_InputIndex(d) == CHOOSE i \in DOMAIN arg : arg[i].property_id = d.property_id

\* C9: two deals of equal score appear in the output of score_deals in the
\* same relative order as in the input batch.
C9_StableForTies ==
    (mode = "score_deals" /\ pc = "done") =>
        \A j, k \in DOMAIN ret :
            (j < k /\ ret[j].score = ret[k].score)
                => C9_InputIndex(ret[j]) < C9_InputIndex(ret[k])

\* two deals tie below the best one and keep their input order
C9_Witness ==
    /\ mode = "score_deals" /\ pc = "done"
    /\ arg = ScoreBatch(<<5, 1, 4>>)
    /\ ret[2].score = ret[3].score
    /\ [j \in DOMAIN ret |-> ret[j].property_id] = <<"D2", "D1", "D3">>

\* C11: when age > 20, estimate_repairs adds the kitchen cost exactly once if
\* sqft/1500 >= 1 and not at all if sqft < 1500, and the bathroom cost
\* min(bathrooms, 2) times; when age <= 20 or the age is unknown it adds neither.
C11_KitchenStepBathroomCapped ==
    (mode = "estimate_repairs" /\ pc = "done") =>
        REq(C10_Extras(arg, settings, ret),
            IF AgeKnown(arg) /\ Age(arg) > 20
            THEN RAdd(IF RLe(R(1500), arg.square_feet)
                      THEN settings.REPAIR_COSTS.kitchen ELSE R(0),
                      RMul(settings.REPAIR_COSTS.bathroom,
                           IF RLe(arg.bathrooms, R(2)) THEN arg.bathrooms ELSE R(2)))
            ELSE R(0))

\* a 30-year-old house of 1000 sqft with 2.5 baths: no kitchen, two bathrooms
C11_Witness ==
    /\ mode = "estimate_repairs" /\ pc = "done"
    /\ AgeKnown(arg) /\ Age(arg) = 30
    /\ arg.square_feet = R(1000) /\ arg.bathrooms = Q(5, 2)
    /\ arg.opportunity_keywords = <<>>
    /\ settings = InitialSettings
    /\ ret = R(40700)

\* the property of the worked example: age 60, 1000 sqft, no keyword, $20/sqft
C12_Example ==
    /\ mode = "estimate_repairs" /\ pc = "done"
    /\ AgeKnown(arg) /\ Age(arg) = 60
    /\ arg.square_feet = R(1000)
    /\ arg.opportunity_keywords = <<>>
    /\ settings.REPAIR_COSTS.base_sqft_cost = R(20)

C12_Bathrooms ==
    RMul(settings.REPAIR_COSTS.bathroom,
         IF RLe(arg.bathrooms, R(2)) THEN arg.bathrooms ELSE R(2))

\* C12 as stated: for age 60, 1000 sqft, base cost 20 and no keyword,
\* estimate_repairs returns 1.1 * (30000 + kitchen cost + bathroom cost *
\* min(bathrooms, 2)), the kitchen cost being added once.
C12_ExampleKitchenOnce ==
    C12_Example =>
        REq(ret, RMul(Q(11, 10),
                      RAdd(RAdd(R(30000), settings.REPAIR_COSTS.kitchen),
                           C12_Bathrooms)))

\* C12 amended: for age 60, 1000 sqft, base cost 20 and no keyword,
\* estimate_repairs uses age factor 1.5 and condition factor 1.0 (base 30000),
\* adds no kitchen cost (int(1000/1500) = 0), adds bathroom cost *
\* min(bathrooms, 2) and multiplies the sum by 1.1.
C12_ExampleNoKitchen ==
    C12_Example =>
        /\ age_factor(arg) = Q(3, 2)
        /\ condition_factor(arg) = R(1)
        /\ REq(ret, RMul(Q(11, 10), RAdd(R(30000), C12_Bathrooms)))

\* the example with three bathrooms: 1.1 * (30000 + 2 * 7500)
C12_Witness ==
    /\ C12_Example
    /\ arg.bathrooms = R(3)
    /\ settings = InitialSettings
    /\ ret = R(49500)

\* the age baseline: > 50 extensive, > 30 moderate, any other known age
\* cosmetic, unknown age moderate
C13_Baseline(p) ==
    CASE ~AgeKnown(p) -> "moderate"
      [] AgeKnown(p) /\ Age(p) >= 51 -> "extensive"
      [] AgeKnown(p) /\ Age(p) \in 31..50 -> "moderate"
      [] OTHER -> "cosmetic"

\* the decision table, each row guarded by the failure of the rows above it
C13_Table(baseline, e, m, s) ==
    LET a == e >= 2 \/ s >= 2
        b == e >= 1 \/ m >= 2 \/ s >= 1
        c == m >= 1
    IN  CASE a -> "extensive"
          [] ~a /\ b -> "moderate"
          [] ~a /\ ~b /\ c /\ baseline = "cosmetic" -> "moderate"
          [] ~a /\ ~b /\ c /\ baseline # "cosmetic" -> baseline
          [] OTHER -> baseline

\* C13: estimate_renovation_level applies the decision table in priority
\* order, first match wins: (a) extensive_count >= 2 or serious_issues >= 2
\* gives extensive; (b) extensive_count >= 1 or moderate_count >= 2 or
\* serious_issues >= 1 gives moderate; (c) moderate_count >= 1 gives moderate
\* on a cosmetic baseline, else the baseline; (d) otherwise the age baseline.
\* Two serious issues give extensive whatever the age baseline.
C13_DecisionTable ==
    (mode = "repair_estimator" /\ pc = "done"
        /\ ret.fn = "estimate_renovation_level") =>
        LET d == lower(arg.description)
            e == indicator_count(extensive_indicators, arg.opportunity_keywords, d)
            m == indicator_count(moderate_indicators, arg.opportunity_keywords, d)
            s == serious_issues(d)
        IN  /\ ret.value = C13_Table(C13_Baseline(arg), e, m, s)
            /\ (arg.description = "Foundation and electrical issues"
                    /\ arg.opportunity_keywords = <<>>)
               => (s = 2 /\ e = 0 /\ m = 0 /\ ret.value = "extensive")

\* foundation and electrical issues on a 10-year-old house (baseline cosmetic)
C13_Witness ==
    /\ mode = "repair_estimator" /\ pc = "done"
    /\ ret.fn = "estimate_renovation_level"
    /\ arg.description = "Foundation and electrical issues"
    /\ arg.opportunity_keywords = <<>>
    /\ AgeKnown(arg) /\ Age(arg) = 10
    /\ ret.value = "extensive"

\* the sum of the costs of the returned line items
C14_ItemSum(items) == RSum([i \in 1..Len(items) |-> items[i].cost] \o <<>>)

\* C14: for every property detailed_repair_estimate returns a result with
\* base_estimate = sqft * per-sqft rate of the classified level, contingency =
\* 10% of (base_estimate + sum of the line items) and total = base_estimate +
\* sum of the line items + contingency.
C14_DetailedEstimateConsistent ==
    (mode = "repair_estimator" /\ pc = "done"
        /\ ret.fn = "detailed_repair_estimate") =>
        /\ ~ret.value.raised
        /\ ret.value.overall_level = estimate_renovation_level(arg)
        /\ REq(ret.value.base_estimate,
               RMul(arg.square_feet, COST_LEVELS[ret.value.overall_level]))
        /\ REq(ret.value.contingency,
               RDiv(RAdd(ret.value.base_estimate, C14_ItemSum(ret.value.line_items)),
                    R(10)))
        /\ REq(ret.value.total,
               RAdd(RAdd(ret.value.base_estimate, C14_ItemSum(ret.value.line_items)),
                    ret.value.contingency))

\* C15: a deal's closing_costs is list_price * purchase_percentage + arv *
\* (agent_commission + seller_closing_percentage) and its holding_costs is
\* (list_price * mortgage_rate / 12 + list_price * property_tax_rate / 12 +
\* list_price * insurance_rate / 12 + monthly_utilities) * AVERAGE_FLIP_MONTHS,
\* with the rates and the months of the settings at the time of the call.
C15_ClosingAndHoldingCosts ==
    (mode = "analyze_deal" /\ pc = "done" /\ ~ret.raised) =>
        LET lp == arg.p.list_price
            hc == settings.HOLDING_COSTS
            monthly ==
                RAdd(RAdd(RAdd(RDiv(RMul(lp, hc.mortgage_rate), R(12)),
                               RDiv(RMul(lp, hc.property_tax_rate), R(12))),
                          RDiv(RMul(lp, hc.insurance_rate), R(12))),
                     hc.monthly_utilities)
        IN  /\ REq(ret.deal.closing_costs,
                   RAdd(RMul(lp, CLOSING_COSTS.purchase_percentage),
                        RMul(arg.arv,
                             RAdd(CLOSING_COSTS.agent_commission,
                                  CLOSING_COSTS.seller_closing_percentage))))
            /\ REq(ret.deal.holding_costs,
                   RMul(monthly, settings.AVERAGE_FLIP_MONTHS))

\* a deal evaluated under settings a dashboard has changed: 6 months at a
\* mortgage rate of 10 %
C15_Witness ==
    /\ mode = "analyze_deal" /\ pc = "done" /\ ~ret.raised
    /\ settings = TunedSettings
    /\ arg.p.list_price = R(200000) /\ arg.arv = R(320000)
    /\ ret.deal.closing_costs = R(31600)
    /\ ret.deal.holding_costs = R(13200)

\* C16: for a property whose list price is 0, analyze_deal ends with a
\* reported error: it neither raises nor returns a deal.
C16_ZeroListPriceRejected ==
    (mode = "analyze_deal" /\ pc = "done" /\ arg.p.list_price = R(0)) =>
        /\ ~ret.raised
        /\ "deal" \notin DOMAIN ret

\* C17: a call of an ARV estimator never ends in an exception: whatever the
\* comp list (empty, comps of zero square footage) and with or without a
\* selected property it returns a number.
C17_ArvEstimatorsNeverRaise ==
    (mode = "calculate_arv" /\ pc # "call") =>
        /\ pc = "done"
        /\ ret.arv.d > 0

\* the ARV an estimator returns for the property without its comps of
\* non-positive square footage
C18_ArvWithoutZeroSqft(estimator, p, exclude_outliers) ==
    LET q == [p EXCEPT !.comps =
                 SelectSeq(p.comps, LAMBDA c : RLt(R(0), c.square_feet))]
    IN  CASE estimator = "deal_analyzer" -> calculate_arv(q)
          [] estimator = "dashboard" ->
                dashboard_calculate_arv(q,
                    [DefaultParams EXCEPT !.exclude_outliers = exclude_outliers])
          [] estimator = "detail_view" ->
                view_calculate_arv(q,
                    [DefaultViewParams EXCEPT !.exclude_outliers = exclude_outliers])

\* C18: a comp with square_feet <= 0 contributes to no ARV: every estimator
\* returns what it returns for the comp list without these comps.
C18_ZeroSqftCompsNeverCount ==
    (mode = "calculate_arv" /\ pc = "done") =>
        REq(ret.arv,
            C18_ArvWithoutZeroSqft(ret.estimator, arg.p, arg.exclude_outliers))

\* C19: filtering comps leaves the property as the market-data collaborator
\* delivered it: after analyze_deals and after a per-property recalculation
\* every property the dashboard holds still has its full comp list, with
\* every comp record unchanged.
C19_CompListsUntouched ==
    mode = "dashboard" =>
        \A id \in DOMAIN prop_heap :
            \E delivered \in {OakSt, ElmAve, PineRd} :
                /\ delivered.mls_id = prop_heap[id].mls_id
                /\ delivered.comps = prop_heap[id].comps

\* the holding costs of a purchase at list_price for a holding period and a
\* mortgage rate (in percent) of a dashboard's parameters
C20_HoldingCosts(list_price, flip_months, mortgage_rate) ==
    calculate_holding_costs(list_price, flip_months,
        [InitialSettings EXCEPT
            !.HOLDING_COSTS.mortgage_rate = RDiv(mortgage_rate, R(100))])

\* C20: every deal the dashboard holds, a deal re-evaluated by a cell edit or
\* by a per-property recalculation included, has the holding costs of this
\* dashboard's own holding period and of a mortgage rate this dashboard has
\* set (the imported default or its mortgage_rate parameter), whatever
\* another dashboard's analyze_deals has written in between.
C20_OwnParameters ==
    mode = "dashboard" =>
        \A id \in LiveDeals(deals, scored_deals, view) :
            \E rate \in {DefaultParams.mortgage_rate, params.mortgage_rate} :
                REq(deal_heap[id].holding_costs,
                    C20_HoldingCosts(deal_heap[id].list_price,
                                     params.flip_months, rate))

\* C21: a property whose deal has been ranked by score_deals is read-only:
\* no later step (cell edit, per-property recalculation) changes any of its
\* fields, its comp list and its estimated repair cost, ARV, profit and ROI
\* included.
C21_ReadOnlyAfterScoring ==
    [][\A id \in DOMAIN prop_heap \cap DOMAIN prop_heap' :
          (mode = "dashboard"
             /\ \E d \in Range(scored_deals) :
                    deal_heap[d].property_id = prop_heap[id].mls_id)
          => prop_heap'[id] = prop_heap[id]]_vars

\* C22: deal_analyzer.calculate_arv, which always applies the 2-sigma
\* filter, returns the ARV that FlipFinderDashboard.calculate_arv returns
\* with exclude_outliers on, which filters above 5 samples only.
C22_BatchEqualsDashboard ==
    (mode = "calculate_arv" /\ pc = "done" /\ ret.estimator = "deal_analyzer") =>
        REq(ret.arv,
            dashboard_calculate_arv(arg.p,
                [DefaultParams EXCEPT !.exclude_outliers = TRUE]))

\* five samples with one exactly 2 standard deviations from the mean: 100,
\* 100, 100, 100, 400 have mean 160 and standard deviation 120
C22_Witness ==
    /\ mode = "calculate_arv" /\ pc = "done" /\ ret.estimator = "deal_analyzer"
    /\ arg.p.square_feet = R(1000)
    /\ Len(arg.p.comps) = 5
    /\ \A i \in 1..4 : arg.p.comps[i].price_per_sqft = R(100)
    /\ arg.p.comps[5].price_per_sqft = R(400)
    /\ ret.arv = R(160000)

\* the samples the 2-sigma filter of an estimator keeps
C23_Filtered(xs) ==
    SelectSeq(xs, LAMBDA x : within_2_std(x, RMean(xs), RVar(xs)))

\* C23: whenever an estimator applies the 2-sigma filter to a non-empty list
\* of samples, the filter keeps at least one sample and the ARV is the
\* subject's square footage times the mean of the kept samples: the branch
\* for an empty filtered set is never taken.
C23_FilterKeepsASample ==
    (mode = "calculate_arv" /\ pc = "done") =>
        LET xs == C3_Samples(ret.estimator, arg.p.comps)
            applied == \/ ret.estimator = "deal_analyzer"
                       \/ arg.exclude_outliers /\ Len(xs) > 5
        IN  (xs # <<>> /\ applied) =>
                /\ C23_Filtered(xs) # <<>>
                /\ REq(ret.arv,
                       RMul(arg.p.square_feet, RMean(C23_Filtered(xs))))

\* the filter on samples of standard deviation 0: five times 100
C23_Witness ==
    /\ mode = "calculate_arv" /\ pc = "done" /\ ret.estimator = "deal_analyzer"
    /\ arg.p.square_feet = R(2000)
    /\ Len(arg.p.comps) = 5
    /\ \A i \in 1..5 : /\ arg.p.comps[i].price_per_sqft = R(100)
                       /\ arg.p.comps[i].square_feet = R(1000)
    /\ ret.arv = R(200000)

\* the sum of the six weights of SCORING: 105 as configured
C24_MaxScore ==
    SCORING.profit_weight + SCORING.roi_weight + SCORING.repair_cost_weight
        + SCORING.dom_weight + SCORING.opportunity_keywords_weight
        + SCORING.meets_70_rule_weight

\* C24: every score set by score_deals is between 0 and the sum of the six
\* weights (105), and the score of the deal of a single-deal batch is its
\* keyword bonus plus its 70%-rule bonus.
C24_ScoreBounds ==
    (mode = "score_deals" /\ pc = "done") =>
        /\ C24_MaxScore = 105
        /\ \A j \in DOMAIN ret :
              /\ RLe(R(0), ret[j].score)
              /\ RLe(ret[j].score, R(C24_MaxScore))
        /\ Len(arg) = 1 =>
              LET d == ret[1]
                  n == Len(d.property_data.opportunity_keywords)
              IN  d.score =
                      R((IF n < SCORING.opportunity_keywords_weight
                         THEN n ELSE SCORING.opportunity_keywords_weight)
                        + (IF d.meets_70_percent_rule
                           THEN SCORING.meets_70_rule_weight ELSE 0))

\* both bounds met in one batch: the best deal on every metric, with six
\* keywords and the 70% rule, and the worst deal
C24_Witness ==
    /\ mode = "score_deals" /\ pc = "done"
    /\ arg = ScoreBatch(<<2, 7>>)
    /\ [j \in DOMAIN ret |-> ret[j].score] = <<R(105), R(0)>>

\* C25: scoring again, with the deals and the configuration unchanged, gives
\* the deals in the same order with the same scores as the first scoring.
C25_RescoringIdempotent ==
    (mode = "score_deals" /\ pc = "rescored") => ret = score_deals(arg)

\* a rescored batch with two deals of equal score behind the best one
C25_Witness ==
    /\ mode = "score_deals" /\ pc = "rescored"
    /\ arg = ScoreBatch(<<3, 3, 1>>)
    /\ [j \in DOMAIN ret |-> ret[j].property_id] = <<"D3", "D1", "D2">>
    /\ ret[2].score = ret[3].score
    /\ RLt(R(0), ret[2].score)

\* the order cosmetic < moderate < extensive < complete
C26_Rank(level) ==
    CASE level = "cosmetic" -> 1
      [] level = "moderate" -> 2
      [] level = "extensive" -> 3
      [] level = "complete" -> 4

\* C26: the level returned by estimate_renovation_level is never lower than
\* the age-based baseline of the property.
C26_NeverBelowBaseline ==
    (mode = "repair_estimator" /\ pc = "done"
        /\ ret.fn = "estimate_renovation_level") =>
        C26_Rank(ret.value) >= C26_Rank(C13_Baseline(arg))

C28_SelectedDealIsCurrent ==
    (mode = "dashboard" /\ view.selected_property # NoRef
        /\ view.selected_deal # NoRef) =>
        /\ deal_heap[view.selected_deal].address
               = get_full_address(prop_heap[view.selected_property])
        /\ view.selected_deal \in Range(deals)

\* what recalculate_property_deal computes when invoked on property heap ph
\* with the detail view v: the comp list it puts on the selected property
\* and the outcome of its analyze_deal
C29_Recalculation(ph, v, clock, prm, st) ==
    LET p == ph[v.selected_property]
        filtered_comps == recalculate_comps(p, v, clock)
        p1 == [p EXCEPT !.comps = filtered_comps]
    IN  [comps |-> filtered_comps,
         outcome |-> analyze_deal(p1, view_calculate_arv(p1, v.prm),
                                  view_calculate_repair_costs(p1, v.prm, st),
                                  prm.min_roi, st)]

\* a deal without the fields score_deals writes
C29_Unscored(d) == [d EXCEPT !.scored = FALSE, !.score = R(0)]

\* C29: right after a recalculation that produced a deal, a second
\* recalculation with the parameters and the comp toggles as they are leaves
\* the same comp list on the selected property and produces the same deal.
C29_RecalculationIdempotent ==
    [][(/\ RecalculatePropertyDeal
        /\ view.selected_property # NoRef
        /\ view.selected_deal # NoRef
        /\ ~log'.raised)
       => LET second == C29_Recalculation(prop_heap', view', now', params',
                                          settings')
          IN  /\ second.comps = prop_heap'[view'.selected_property].comps
              /\ ~second.outcome.raised
              /\ C29_Unscored(second.outcome.deal)
                     = C29_Unscored(deal_heap'[view'.selected_deal])]_vars

\* C30: for a property whose opportunity keywords were extracted by the MLS
\* or the Redfin connector, every keyword is a term of the opportunity
\* vocabulary and estimate_repairs uses the condition factor 1.0 or 1.5,
\* never 1.25.
C30_ModerateTierUnreachable ==
    (mode = "estimate_repairs" /\ pc = "done") =>
        /\ Range(arg.opportunity_keywords) \subseteq Range(OPPORTUNITY_KEYWORDS)
        /\ \E factor \in {R(1), Q(15, 10)} :
              REq(ret,
                  RMul(RAdd(RMul(RMul(RMul(arg.square_feet,
                                           settings.REPAIR_COSTS.base_sqft_cost),
                                      age_factor(arg)), factor),
                            repair_extras(arg, settings)),
                       Q(11, 10)))

\* remarks with three of the moderate repair keywords and none of the
\* vocabulary: no keyword is extracted and the factor is 1.0
C30_Witness ==
    /\ mode = "estimate_repairs" /\ pc = "done"
    /\ arg.description = "Dated kitchen, original baths, update needed"
    /\ arg.opportunity_keywords = <<>>
    /\ arg.year_built = 2016
    /\ ret = R(44000)

====
